---------------------------- MODULE Spec2Model ----------------------------
(***************************************************************************)
(* Billing, team and region reporting of the case tracker: the memoised    *)
(* aggregations of BillingManager, TeamManager and CaseMatrix over the     *)
(* case list and the billing adjustments, with the handlers that change    *)
(* those inputs.                                                           *)
(*                                                                         *)
(* Encoding of JavaScript values                                           *)
(*  - a string is the sequence of its characters, "ab" is <<"a", "b">>;    *)
(*  - undefined is UNDEF, a sequence that is no character string;          *)
(*  - amounts are whole numbers (no decimal point is drawn); a quotient is *)
(*    an exact fraction <<n, d>>, so IEEE rounding is not modelled;        *)
(*  - dateReceived is a string or undefined (the Date-object and           *)
(*    Excel-serial branches of parseDateInput are not drawn); the dates    *)
(*    drawn are mid-month, so the local-time getters agree with the UTC    *)
(*    date in every time zone.                                             *)
(***************************************************************************)
EXTENDS Integers, Sequences, FiniteSets, TLC

VARIABLES
    cases,          \* page.tsx `cases` state, the `cases` prop of the views
    adjustments,    \* BillingManager `adjustments` state
    selectedYear,   \* `selectedYear` state of the views
    officeViewMode, \* CaseMatrix `officeViewMode` state
    filters,        \* page.tsx `filters` state
    debouncedSearch,\* page.tsx `debouncedSearch` state
    columnFilters,  \* page.tsx `columnFilters` state
    table,          \* db.ts: the table case_manage.cases
    casesCache,     \* db.ts `casesCache`
    casesCacheLight,\* db.ts `casesCacheLight`
    now,            \* db.ts: Date.now() on the server
    fetch,          \* db.ts: the getAllCases / getAllCasesLight call in flight
    write,          \* db.ts: the createCase / updateCase / deleteCase call in flight
    returned,       \* db.ts: what the step just taken handed to a caller
    settled,        \* the statements applied when the last successful write call ended
    pending,        \* page.tsx: the server-action calls of the page awaiting their result
    stopped,        \* page.tsx `stopped` of the background refresh effect
    error,          \* page.tsx `error` state
    isLoading,      \* page.tsx `isLoading` state
    issued,         \* the number of server-action calls the page has made
    delivered,      \* what the step just taken delivered to the page
    billingRows,    \* the table case_manage.billing_adjustments
    move            \* BillingManager: the handleMoveAmount call in progress

\* The state of the server module db.ts.
serverVars == <<table, casesCache, casesCacheLight, now, fetch, write, returned, settled>>

\* The state of the page around its server-action calls.
clientVars == <<pending, stopped, error, isLoading, issued, delivered>>

\* The state of the move between months.
moveVars == <<billingRows, move>>

\* The state outside the views.
asyncVars == <<serverVars, clientVars, moveVars>>

vars == <<cases, adjustments, selectedYear, officeViewMode, filters,
          debouncedSearch, columnFilters, asyncVars>>

\* The state of the table view and of the region view.
viewVars == <<officeViewMode, filters, debouncedSearch, columnFilters>>

(***************************************************************************)
(* Strings                                                                 *)
(***************************************************************************)
UNDEF == <<"undefined">>

\* JavaScript truthiness of a value of type string | undefined.
Truthy(s) == s # UNDEF /\ s # <<>>

RECURSIVE TrimStart(_)
TrimStart(s) ==
    IF s # <<>> /\ Head(s) = " " THEN TrimStart(Tail(s)) ELSE s

RECURSIVE TrimEnd(_)
TrimEnd(s) ==
    IF s # <<>> /\ s[Len(s)] = " " THEN TrimEnd(SubSeq(s, 1, Len(s) - 1)) ELSE s

\* String.prototype.trim
Trim(s) == TrimEnd(TrimStart(s))

UpperChars == <<"A", "B", "C", "D", "E", "F", "G", "H", "I", "J", "K", "L", "M",
                "N", "O", "P", "Q", "R", "S", "T", "U", "V", "W", "X", "Y", "Z">>
LowerChars == <<"a", "b", "c", "d", "e", "f", "g", "h", "i", "j", "k", "l", "m",
                "n", "o", "p", "q", "r", "s", "t", "u", "v", "w", "x", "y", "z">>

LowerChar(ch) ==
    IF \E i \in 1..Len(UpperChars) : UpperChars[i] = ch
    THEN LowerChars[CHOOSE i \in 1..Len(UpperChars) : UpperChars[i] = ch]
    ELSE ch

\* String.prototype.toLowerCase
ToLowerCase(s) == [i \in 1..Len(s) |-> LowerChar(s[i])]

\* s.replace(/[...]/g, ''): drop every character of the class `drop`.
RECURSIVE StripChars(_, _)
StripChars(s, drop) ==
    IF s = <<>> THEN <<>>
    ELSE IF Head(s) \in drop THEN StripChars(Tail(s), drop)
         ELSE <<Head(s)>> \o StripChars(Tail(s), drop)

\* s.split(/[...]/): cut at every character of the class `seps`; `cur` is the
\* piece being read. Like split, it yields the empty pieces too.
RECURSIVE SplitAcc(_, _, _)
SplitAcc(s, seps, cur) ==
    IF s = <<>> THEN <<cur>>
    ELSE IF Head(s) \in seps THEN <<cur>> \o SplitAcc(Tail(s), seps, <<>>)
         ELSE SplitAcc(Tail(s), seps, Append(cur, Head(s)))

SplitChars(s, seps) == SplitAcc(s, seps, <<>>)

\* arr.map(a => a.trim()).filter(a => a)
RECURSIVE TrimAndDropEmpty(_)
TrimAndDropEmpty(parts) ==
    IF parts = <<>> THEN <<>>
    ELSE LET t == Trim(Head(parts))
         IN  IF t = <<>> THEN TrimAndDropEmpty(Tail(parts))
             ELSE <<t>> \o TrimAndDropEmpty(Tail(parts))

(***************************************************************************)
(* Numbers                                                                 *)
(***************************************************************************)
DigitChars == <<"0", "1", "2", "3", "4", "5", "6", "7", "8", "9">>

IsDigit(ch) == \E i \in 1..10 : DigitChars[i] = ch

DigitVal(ch) == (CHOOSE i \in 1..10 : DigitChars[i] = ch) - 1

AllDigits(s) == s # <<>> /\ \A i \in 1..Len(s) : IsDigit(s[i])

RECURSIVE DigitsValue(_, _)
DigitsValue(s, acc) ==
    IF s = <<>> THEN acc ELSE DigitsValue(Tail(s), 10 * acc + DigitVal(Head(s)))

\* Number(string) on decimal integers: "" and blanks give 0, an optional sign
\* and digits give the number, anything else gives NaN.
NumberOf(s) ==
    LET t == Trim(s)
    IN  IF t = <<>> THEN [nan |-> FALSE, val |-> 0]
        ELSE IF AllDigits(t) THEN [nan |-> FALSE, val |-> DigitsValue(t, 0)]
        ELSE IF Head(t) \in {"-", "+"} /\ AllDigits(Tail(t))
             THEN [nan |-> FALSE,
                   val |-> IF Head(t) = "-" THEN 0 - DigitsValue(Tail(t), 0)
                           ELSE DigitsValue(Tail(t), 0)]
        ELSE [nan |-> TRUE, val |-> 0]

parseAmount_NoStrip(value) ==
    IF ~Truthy(value) THEN 0
    ELSE LET parsed == NumberOf(Trim(value))
         IN  IF parsed.nan THEN 0 ELSE parsed.val

\* formatters.parseAmount on a string | undefined.
parseAmount(value) ==
    IF ~Truthy(value) THEN 0
    ELSE LET sanitized == Trim(StripChars(value, {"$", ","}))
             parsed == NumberOf(sanitized)
         IN  IF parsed.nan THEN 0 ELSE parsed.val

(***************************************************************************)
(* Dates                                                                   *)
(***************************************************************************)
NullDate == [valid |-> FALSE]

\* new Date("YYYY-MM-DD"); any other text drawn here is an Invalid Date.
\* `month` is the value of getMonth(), 0..11.
NewDate(s) ==
    IF /\ Len(s) = 10
       /\ s[5] = "-" /\ s[8] = "-"
       /\ AllDigits(SubSeq(s, 1, 4)) /\ AllDigits(SubSeq(s, 6, 7))
       /\ AllDigits(SubSeq(s, 9, 10))
       /\ DigitsValue(SubSeq(s, 6, 7), 0) \in 1..12
       /\ DigitsValue(SubSeq(s, 9, 10), 0) \in 1..31
    THEN [valid |-> TRUE,
          year  |-> DigitsValue(SubSeq(s, 1, 4), 0),
          month |-> DigitsValue(SubSeq(s, 6, 7), 0) - 1,
          day   |-> DigitsValue(SubSeq(s, 9, 10), 0)]
    ELSE NullDate

\* caseUtils.parseDateInput on a string | undefined.
parseDateInput(value) ==
    IF value = UNDEF THEN NullDate
    ELSE LET trimmed == Trim(value)
             lower == ToLowerCase(trimmed)
         IN  IF trimmed = <<>> THEN NullDate
             ELSE IF lower = <<"n", "a">> \/ lower = <<"n", "/", "a">> THEN NullDate
             ELSE NewDate(trimmed)

(***************************************************************************)
(* Records with computed keys (Record<string, number>, Map)                *)
(***************************************************************************)
EmptyRecord == [k \in {} |-> 0]

\* rec[key] || 0
Get(rec, key) == IF key \in DOMAIN rec THEN rec[key] ELSE 0

\* rec[key] = value
Put(rec, key, value) ==
    [k \in (DOMAIN rec) \cup {key} |-> IF k = key THEN value ELSE rec[k]]

RECURSIVE SumOver(_, _)
\* The sum of rec[k] over the keys k in `keys`.
SumOver(rec, keys) ==
    IF keys = {} THEN 0
    ELSE LET k == CHOOSE x \in keys : TRUE
         IN  rec[k] + SumOver(rec, keys \ {k})

\* Object.values(rec) summed.
SumValues(rec) == SumOver(rec, DOMAIN rec)

(***************************************************************************)
(* BillingManager: monthly and quarterly summaries by billing type         *)
(***************************************************************************)
S_Others == <<"O", "t", "h", "e", "r", "s">>
S_AddOns == <<"A", "d", "d", "-", "o", "n", "s">>
S_Full   == <<"F", "u", "l", "l">>
S_Short  == <<"S", "h", "o", "r", "t">>

\* c.addOnsBilling && c.addOnsBilling.trim() !== ''
HasAddOnsBilling(c) == Truthy(c.addOnsBilling) /\ Trim(c.addOnsBilling) # <<>>

\* The twelve (or four) empty buckets of a year, keyed `${year}-${period}`.
InitBuckets(year, periods) ==
    [key \in {<<year, p>> : p \in periods} |->
        [period |-> key[2], year |-> year, typeAmounts |-> EmptyRecord, total |-> 0]]

\* AddToBucket with the slip `total` is never updated.
AddToBucket_NoTotal(summary, type, amount) ==
    [summary EXCEPT !.typeAmounts = Put(@, type, Get(@, type) + amount)]

\* AddToBucket with the slip `=` for `+=`: the bucket is overwritten.
AddToBucket_Overwrite(summary, type, amount) ==
    [summary EXCEPT !.typeAmounts = Put(@, type, amount),
                    !.total = @ + amount]

\* summary.typeAmounts[type] = (summary.typeAmounts[type] || 0) + amount
\* summary.total += amount
AddToBucket(summary, type, amount) ==
    [summary EXCEPT !.typeAmounts = Put(@, type, Get(@, type) + amount),
                    !.total = @ + amount]

MonthOf(date) == date.month + 1
QuarterOf(date) == (date.month \div 3) + 1

\* date.getMonth() + 1 or Math.floor(date.getMonth() / 3) + 1
PeriodOf(date, granularity) ==
    IF granularity = "monthly" THEN MonthOf(date) ELSE QuarterOf(date)

\* The body of cases.forEach in monthlySummary and quarterlySummary.
AggregateBillingCase(summaryMap, c, year, granularity) ==
    LET date == parseDateInput(c.dateReceived)
    IN  IF ~date.valid \/ date.year # year THEN summaryMap
        ELSE LET key == <<year, PeriodOf(date, granularity)>>
                 s0 == summaryMap[key]
                 s1 == IF Truthy(c.amount) /\ Truthy(c.type)
                       THEN AddToBucket(s0,
                                IF Truthy(c.type) THEN c.type ELSE S_Others,
                                parseAmount(c.amount))
                       ELSE s0
                 s2 == IF HasAddOnsBilling(c)
                       THEN AddToBucket(s1, S_AddOns, parseAmount(c.addOnsBilling))
                       ELSE s1
             IN  [summaryMap EXCEPT ![key] = s2]

RECURSIVE AggregateBillingCases(_, _, _, _)
AggregateBillingCases(summaryMap, cs, year, granularity) ==
    IF cs = <<>> THEN summaryMap
    ELSE AggregateBillingCases(AggregateBillingCase(summaryMap, Head(cs), year, granularity),
                               Tail(cs), year, granularity)

\* ApplyAdjustment with the slip that the bucket is looked up by month alone,
\* whatever the year of the adjustment.
ApplyAdjustment_AnyYear(summaryMap, adj, year) ==
    LET key == <<year, adj.month>>
    IN  IF key \notin DOMAIN summaryMap THEN summaryMap
        ELSE [summaryMap EXCEPT ![key] = AddToBucket(@, adj.type, adj.amount)]

\* ApplyAdjustment with the slip that the adjustment replaces the bucket's
\* amount instead of being added to it.
ApplyAdjustment_Replace(summaryMap, adj, year) ==
    IF adj.year # year THEN summaryMap
    ELSE LET key == <<adj.year, adj.month>>
         IN  IF key \notin DOMAIN summaryMap THEN summaryMap
             ELSE [summaryMap EXCEPT
                      ![key].total = @ - Get(summaryMap[key].typeAmounts, adj.type)
                                       + adj.amount,
                      ![key].typeAmounts = Put(@, adj.type, adj.amount)]

\* The body of adjustments.forEach in monthlySummary.
ApplyAdjustment(summaryMap, adj, year) ==
    IF adj.year # year THEN summaryMap
    ELSE LET key == <<adj.year, adj.month>>
         IN  IF key \notin DOMAIN summaryMap THEN summaryMap
             ELSE [summaryMap EXCEPT ![key] = AddToBucket(@, adj.type, adj.amount)]

RECURSIVE ApplyAdjustments(_, _, _)
ApplyAdjustments(summaryMap, adjs, year) ==
    IF adjs = <<>> THEN summaryMap
    ELSE ApplyAdjustments(ApplyAdjustment(summaryMap, Head(adjs), year), Tail(adjs), year)

\* Array.from(map.values()).sort((a, b) => a.period - b.period)
SortedByPeriod(summaryMap) ==
    LET keys == DOMAIN summaryMap
        Rank(k) == Cardinality({j \in keys : j[1] < k[1] \/ (j[1] = k[1] /\ j[2] < k[2])}) + 1
    IN  [i \in 1..Cardinality(keys) |-> summaryMap[CHOOSE k \in keys : Rank(k) = i]]

MonthlySummaryOf(cs, year, adjs) ==
    SortedByPeriod(
        ApplyAdjustments(
            AggregateBillingCases(InitBuckets(year, 1..12), cs, year, "monthly"),
            adjs, year))

QuarterlySummaryOf(cs, year) ==
    SortedByPeriod(AggregateBillingCases(InitBuckets(year, 1..4), cs, year, "quarterly"))

\* typeTotals: the per-type column totals and the grand total of a summary.
TypeTotalsOf(summary) ==
    LET types == UNION {DOMAIN summary[i].typeAmounts : i \in 1..Len(summary)}
        column == [t \in types |->
                     SumOver([i \in 1..Len(summary) |-> Get(summary[i].typeAmounts, t)],
                             1..Len(summary))]
    IN  [totals |-> column,
         grandTotal |-> SumOver([i \in 1..Len(summary) |-> SumValues(summary[i].typeAmounts)],
                                1..Len(summary))]

monthlySummary == MonthlySummaryOf(cases, selectedYear, adjustments)
typeTotals == TypeTotalsOf(monthlySummary)
quarterlySummary == QuarterlySummaryOf(cases, selectedYear)

(***************************************************************************)
(* Fractions and JavaScript division                                       *)
(***************************************************************************)
RECURSIVE Gcd(_, _)
Gcd(a, b) == IF b = 0 THEN a ELSE Gcd(b, a % b)

Abs(n) == IF n < 0 THEN 0 - n ELSE n

\* The fraction n / d, d # 0, in lowest terms with a positive denominator.
Rat(n, d) ==
    LET g == Gcd(Abs(n), Abs(d))
        sign == IF d < 0 THEN 0 - 1 ELSE 1
    IN  <<sign * (n \div g), sign * (d \div g)>>

RatAdd(x, y) == Rat(x[1] * y[2] + y[1] * x[2], x[2] * y[2])

RatZero == <<0, 1>>

\* The JavaScript number n / d for whole numbers n and d.
JsDivide(n, d) ==
    IF d # 0 THEN [kind |-> "finite", value |-> Rat(n, d)]
    ELSE IF n = 0 THEN [kind |-> "NaN"]
    ELSE IF n > 0 THEN [kind |-> "Infinity"]
    ELSE [kind |-> "-Infinity"]

\* x * k for a whole number k > 0.
JsTimes(x, k) ==
    IF x.kind = "finite"
    THEN [kind |-> "finite", value |-> Rat(x.value[1] * k, x.value[2])]
    ELSE x

\* x || 0: NaN and 0 are falsy, the infinities are not.
JsOrZero(x) ==
    IF x.kind = "NaN" THEN [kind |-> "finite", value |-> RatZero] ELSE x

IsFinite(x) == x.kind = "finite"

(***************************************************************************)
(* BillingManager: add-on analysis and the categorised cases               *)
(***************************************************************************)
S_yes == <<"y", "e", "s">>

\* date && date.getFullYear() === year
DatedIn(c, year) ==
    LET date == parseDateInput(c.dateReceived)
    IN  date.valid /\ date.year = year

\* c.type && c.type !== ''
HasType(c) == Truthy(c.type) /\ c.type # <<>>

\* c.addOnsOnly?.toLowerCase() === 'yes'
IsAddOnOnly(c) == c.addOnsOnly # UNDEF /\ ToLowerCase(c.addOnsOnly) = S_yes

\* The if / else-if chain that categorises a case.
CategoryOf(c) ==
    IF IsAddOnOnly(c) /\ HasAddOnsBilling(c) THEN "addonsOnly"
    ELSE IF HasType(c) /\ HasAddOnsBilling(c) THEN "bundled"
    ELSE IF HasType(c) /\ ~HasAddOnsBilling(c) THEN "typeOnly"
    ELSE "none"

\* hasType && !isAddOnOnly ? parseAmount(c.amount) : 0
TypeAmountOf(c) == IF HasType(c) /\ ~IsAddOnOnly(c) THEN parseAmount(c.amount) ELSE 0

\* hasAddOns ? parseAmount(c.addOnsBilling) : 0
AddOnAmountOf(c) == IF HasAddOnsBilling(c) THEN parseAmount(c.addOnsBilling) ELSE 0

\* c.addOnIpDelivered.split(/[,+]/).map(a => a.trim()).filter(a => a)
AddOnComponents(c) == TrimAndDropEmpty(SplitChars(c.addOnIpDelivered, {",", "+"}))

\* addOns.forEach: credit each entry of `addOns` from position i on.
RECURSIVE CreditAddOns(_, _, _, _)
CreditAddOns(addOnMap, addOns, i, addOnAmount) ==
    IF i > Len(addOns) THEN addOnMap
    ELSE LET addon == addOns[i]
             existing == IF addon \in DOMAIN addOnMap THEN addOnMap[addon]
                         ELSE [count |-> 0, revenue |-> RatZero]
         IN  CreditAddOns(
                 Put(addOnMap, addon,
                     [count |-> existing.count + 1,
                      revenue |-> RatAdd(existing.revenue, Rat(addOnAmount, Len(addOns)))]),
                 addOns, i + 1, addOnAmount)

AnalysisInit ==
    [addOnMap |-> EmptyRecord,
     typeOnlyRevenue |-> 0, addOnOnlyRevenue |-> 0, bundledRevenue |-> 0,
     typeOnlyCount |-> 0, addOnOnlyCount |-> 0, bundledCount |-> 0]

\* The body of cases.forEach in addonAnalysis.
AnalyseCase(acc, c, year) ==
    IF ~DatedIn(c, year) THEN acc
    ELSE LET category == CategoryOf(c)
             typeAmount == TypeAmountOf(c)
             addOnAmount == AddOnAmountOf(c)
             a1 == IF category = "addonsOnly"
                   THEN [acc EXCEPT !.addOnOnlyRevenue = @ + addOnAmount,
                                    !.addOnOnlyCount = @ + 1]
                   ELSE IF category = "bundled"
                   THEN [acc EXCEPT !.bundledRevenue = @ + typeAmount + addOnAmount,
                                    !.bundledCount = @ + 1]
                   ELSE IF category = "typeOnly"
                   THEN [acc EXCEPT !.typeOnlyRevenue = @ + typeAmount,
                                    !.typeOnlyCount = @ + 1]
                   ELSE acc
         IN  IF HasAddOnsBilling(c) /\ Truthy(c.addOnIpDelivered)
             THEN [a1 EXCEPT !.addOnMap =
                       CreditAddOns(@, AddOnComponents(c), 1, addOnAmount)]
             ELSE a1

RECURSIVE AnalyseCases(_, _, _)
AnalyseCases(acc, cs, year) ==
    IF cs = <<>> THEN acc
    ELSE AnalyseCases(AnalyseCase(acc, Head(cs), year), Tail(cs), year)

\* cases.filter(dated in year, has add-ons).reduce(sum + parseAmount(addOnsBilling))
RECURSIVE YearAddOnSum(_, _)
YearAddOnSum(cs, year) ==
    IF cs = <<>> THEN 0
    ELSE (IF DatedIn(Head(cs), year) /\ HasAddOnsBilling(Head(cs))
          THEN parseAmount(Head(cs).addOnsBilling) ELSE 0)
         + YearAddOnSum(Tail(cs), year)

\* totalAddOnRevenue of addonAnalysis.
TotalAddOnRevenueOf(acc, cs, year) == acc.addOnOnlyRevenue + YearAddOnSum(cs, year)

AddonAnalysisOf(cs, year) ==
    LET acc == AnalyseCases(AnalysisInit, cs, year)
        totalAddOnRevenue == TotalAddOnRevenueOf(acc, cs, year)
    IN  [typeOnlyRevenue |-> acc.typeOnlyRevenue,
         addOnOnlyRevenue |-> acc.addOnOnlyRevenue,
         bundledRevenue |-> acc.bundledRevenue,
         typeOnlyCount |-> acc.typeOnlyCount,
         addOnOnlyCount |-> acc.addOnOnlyCount,
         bundledCount |-> acc.bundledCount,
         totalRevenue |-> acc.typeOnlyRevenue + acc.addOnOnlyRevenue + acc.bundledRevenue,
         totalAddOnRevenue |-> totalAddOnRevenue,
         addOnMap |-> acc.addOnMap,
         addOnAttachmentRate |->
             JsOrZero(JsTimes(JsDivide(acc.bundledCount,
                                       acc.typeOnlyCount + acc.bundledCount), 100)),
         avgAddOnValue |->
             JsOrZero(JsDivide(totalAddOnRevenue, acc.addOnOnlyCount + acc.bundledCount))]

\* categorizedCases: each list holds the cases pushed to it, a case being named
\* by its position in `cs` (the lists hold references to the case objects).
RECURSIVE PushCategorized(_, _, _, _)
PushCategorized(lists, cs, i, year) ==
    IF i > Len(cs) THEN lists
    ELSE LET c == cs[i]
             category == IF DatedIn(c, year) THEN CategoryOf(c) ELSE "none"
         IN  PushCategorized(
                 IF category = "none" THEN lists
                 ELSE [lists EXCEPT ![category] = Append(@, i)],
                 cs, i + 1, year)

CategorizedCasesOf(cs, year) ==
    PushCategorized([typeOnly |-> <<>>, bundled |-> <<>>, addonsOnly |-> <<>>], cs, 1, year)

addonAnalysis == AddonAnalysisOf(cases, selectedYear)
categorizedCases == CategorizedCasesOf(cases, selectedYear)

(***************************************************************************)
(* TeamManager: monthly and quarterly summaries by team                    *)
(***************************************************************************)
S_Unknown == <<"U", "n", "k", "n", "o", "w", "n">>

InitTeamBuckets(year, periods) ==
    [key \in {<<year, p>> : p \in periods} |->
        [period |-> key[2], year |-> year, teamAmounts |-> EmptyRecord, total |-> 0]]

\* The body of cases.forEach in TeamManager's monthlySummary and quarterlySummary.
AggregateTeamCase(summaryMap, c, year, granularity) ==
    LET date == parseDateInput(c.dateReceived)
    IN  IF ~date.valid \/ date.year # year THEN summaryMap
        ELSE IF ~Truthy(c.amount) \/ ~Truthy(c.team) THEN summaryMap
        ELSE LET key == <<year, PeriodOf(date, granularity)>>
                 amount == parseAmount(c.amount)
                 team == IF Trim(c.team) # <<>> THEN Trim(c.team) ELSE S_Unknown
             IN  [summaryMap EXCEPT
                     ![key].teamAmounts = Put(@, team, Get(@, team) + amount),
                     ![key].total = @ + amount]

RECURSIVE AggregateTeamCases(_, _, _, _)
AggregateTeamCases(summaryMap, cs, year, granularity) ==
    IF cs = <<>> THEN summaryMap
    ELSE AggregateTeamCases(AggregateTeamCase(summaryMap, Head(cs), year, granularity),
                            Tail(cs), year, granularity)

TeamMonthlySummaryOf(cs, year) ==
    SortedByPeriod(AggregateTeamCases(InitTeamBuckets(year, 1..12), cs, year, "monthly"))

TeamQuarterlySummaryOf(cs, year) ==
    SortedByPeriod(AggregateTeamCases(InitTeamBuckets(year, 1..4), cs, year, "quarterly"))

teamMonthlySummary == TeamMonthlySummaryOf(cases, selectedYear)
teamQuarterlySummary == TeamQuarterlySummaryOf(cases, selectedYear)

(***************************************************************************)
(* CaseMatrix: monthly and quarterly amount matrices by region             *)
(***************************************************************************)
UNKNOWN_REGION == <<"(", "U", "n", "a", "s", "s", "i", "g", "n", "e", "d", " ",
                    "R", "e", "g", "i", "o", "n", ")">>

\* (c.region && c.region.trim()) || UNKNOWN_REGION
RegionOf(c) ==
    IF Truthy(c.region) /\ Trim(c.region) # <<>> THEN Trim(c.region) ELSE UNKNOWN_REGION

\* The body of cases.forEach in monthlyAmountMatrix and quarterlyAmountMatrix:
\* the row of a period is created when the first case of the period arrives.
AggregateRegionCase(acc, c, year, granularity) ==
    LET amount == parseAmount(c.amount)
        date == parseDateInput(c.dateReceived)
    IN  IF amount = 0 THEN acc
        ELSE IF ~date.valid THEN acc
        ELSE IF date.year # year THEN acc
        ELSE LET key == <<date.year, PeriodOf(date, granularity)>>
                 region == RegionOf(c)
                 row0 == IF key \in DOMAIN acc.rowMap THEN acc.rowMap[key]
                         ELSE [year |-> date.year, period |-> key[2],
                               regionTotals |-> EmptyRecord, grandTotal |-> 0]
                 row1 == [row0 EXCEPT
                             !.regionTotals = Put(@, region, Get(@, region) + amount),
                             !.grandTotal = @ + amount]
             IN  [rowMap |-> Put(acc.rowMap, key, row1),
                  columnTotals |-> Put(acc.columnTotals, region,
                                       Get(acc.columnTotals, region) + amount),
                  grandTotal |-> acc.grandTotal + amount]

RECURSIVE AggregateRegionCases(_, _, _, _)
AggregateRegionCases(acc, cs, year, granularity) ==
    IF cs = <<>> THEN acc
    ELSE AggregateRegionCases(AggregateRegionCase(acc, Head(cs), year, granularity),
                              Tail(cs), year, granularity)

AmountMatrixOf(cs, year, granularity) ==
    LET acc == AggregateRegionCases(
                   [rowMap |-> EmptyRecord, columnTotals |-> EmptyRecord, grandTotal |-> 0],
                   cs, year, granularity)
    IN  [rows |-> SortedByPeriod(acc.rowMap),
         columnTotals |-> acc.columnTotals,
         grandTotal |-> acc.grandTotal]

monthlyAmountMatrix == AmountMatrixOf(cases, selectedYear, "monthly")
quarterlyAmountMatrix == AmountMatrixOf(cases, selectedYear, "quarterly")

(***************************************************************************)
(* String order                                                            *)
(***************************************************************************)
\* The characters drawn, in the order of their UTF-16 code units.
CodeOrder == <<" ", "$", "(", ")", "+", ",", "-", "/">> \o DigitChars
             \o UpperChars \o LowerChars

CharCode(ch) == CHOOSE i \in 1..Len(CodeOrder) : CodeOrder[i] = ch

\* a < b in the order of Array.prototype.sort() without a comparator, which
\* compares code units. a.localeCompare(b) < 0 agrees with it on the names
\* drawn: capitalised words and the parenthesised placeholders.
RECURSIVE StringLess(_, _)
StringLess(a, b) ==
    IF b = <<>> THEN FALSE
    ELSE IF a = <<>> THEN TRUE
    ELSE IF Head(a) # Head(b) THEN CharCode(Head(a)) < CharCode(Head(b))
    ELSE StringLess(Tail(a), Tail(b))

\* The strings of the set `names` as a sorted array.
RECURSIVE SortedStrings(_)
SortedStrings(names) ==
    IF names = {} THEN <<>>
    ELSE LET least == CHOOSE x \in names : \A y \in names \ {x} : StringLess(x, y)
         IN  <<least>> \o SortedStrings(names \ {least})

\* arr.filter(x => keep.has(x))
RECURSIVE FilterIn(_, _)
FilterIn(arr, keep) ==
    IF arr = <<>> THEN <<>>
    ELSE IF Head(arr) \in keep THEN <<Head(arr)>> \o FilterIn(Tail(arr), keep)
         ELSE FilterIn(Tail(arr), keep)

(***************************************************************************)
(* CaseMatrix: the office matrix (case counts by region, office, period)   *)
(***************************************************************************)
S_Americas == <<"A", "m", "e", "r", "i", "c", "a", "s">>
S_APAC     == <<"A", "P", "A", "C">>
S_EMEA     == <<"E", "M", "E", "A">>
REGION_ORDER == <<S_Americas, S_APAC, S_EMEA>>

UNKNOWN_OFFICE == <<"(", "B", "l", "a", "n", "k", " ", "O", "f", "f", "i", "c", "e", ")">>

\* (c.office && c.office.trim()) || UNKNOWN_OFFICE
OfficeOf(c) ==
    IF Truthy(c.office) /\ Trim(c.office) # <<>> THEN Trim(c.office) ELSE UNKNOWN_OFFICE

\* The years of the cases, latest first: Array.from(new Set(...)).sort((a, b) => b - a)
RECURSIVE YearsDescending(_)
YearsDescending(years) ==
    IF years = {} THEN <<>>
    ELSE LET latest == CHOOSE y \in years : \A z \in years : z <= y
         IN  <<latest>> \o YearsDescending(years \ {latest})

\* The yearly view's availableYears: the four most recent years, .slice(0, 4).
TopYears(cs) ==
    LET years == YearsDescending(
                     {parseDateInput(cs[i].dateReceived).year :
                         i \in {j \in 1..Len(cs) : parseDateInput(cs[j].dateReceived).valid}})
    IN  SubSeq(years, 1, IF Len(years) < 4 THEN Len(years) ELSE 4)

\* arr.indexOf(x) + 1: 0 when x is not in arr.
IndexOf(arr, x) ==
    IF \E i \in 1..Len(arr) : arr[i] = x
    THEN CHOOSE i \in 1..Len(arr) : arr[i] = x /\ \A j \in 1..(i - 1) : arr[j] # x
    ELSE 0

\* The number of period columns of the office matrix.
PeriodCount(mode) == IF mode = "monthly" THEN 12 ELSE 4

\* The period column (1-based) a case is counted in, 0 when it is skipped.
OfficePeriodIndex(c, year, mode, availableYears) ==
    LET date == parseDateInput(c.dateReceived)
    IN  IF ~date.valid THEN 0
        ELSE IF mode = "yearly" THEN IndexOf(availableYears, date.year)
        ELSE IF date.year # year THEN 0
        ELSE IF mode = "monthly" THEN date.month + 1
        ELSE (IF date.month \div 3 < 3 THEN date.month \div 3 ELSE 3) + 1

ZeroCounts(n) == [i \in 1..n |-> 0]

\* CountOfficeCase with the slip that the grand-total row is not advanced.
CountOfficeCase_NoColumnTotal(acc, c, year, mode, availableYears) ==
    LET idx == OfficePeriodIndex(c, year, mode, availableYears)
        region == RegionOf(c)
        office == OfficeOf(c)
        officeMap == IF region \in DOMAIN acc.regionMap THEN acc.regionMap[region]
                     ELSE EmptyRecord
        officeRow == IF office \in DOMAIN officeMap THEN officeMap[office]
                     ELSE [quarters |-> ZeroCounts(PeriodCount(mode)), total |-> 0]
    IN  IF idx = 0 THEN acc
        ELSE [acc EXCEPT
                 !.regionNames = IF region \in DOMAIN acc.regionMap THEN @
                                 ELSE Append(@, region),
                 !.regionMap = Put(@, region,
                                   Put(officeMap, office,
                                       [quarters |-> [officeRow.quarters EXCEPT ![idx] = @ + 1],
                                        total |-> officeRow.total + 1])),
                 !.grandTotal = @ + 1,
                 !.officesSet = @ \cup {office}]

\* The body of cases.forEach in `matrix`. regionNames is the key order of
\* regionMap: a Map lists its keys in insertion order.
CountOfficeCase(acc, c, year, mode, availableYears) ==
    LET idx == OfficePeriodIndex(c, year, mode, availableYears)
        region == RegionOf(c)
        office == OfficeOf(c)
        officeMap == IF region \in DOMAIN acc.regionMap THEN acc.regionMap[region]
                     ELSE EmptyRecord
        officeRow == IF office \in DOMAIN officeMap THEN officeMap[office]
                     ELSE [quarters |-> ZeroCounts(PeriodCount(mode)), total |-> 0]
    IN  IF idx = 0 THEN acc
        ELSE [regionNames |-> IF region \in DOMAIN acc.regionMap THEN acc.regionNames
                              ELSE Append(acc.regionNames, region),
              regionMap |-> Put(acc.regionMap, region,
                                Put(officeMap, office,
                                    [quarters |-> [officeRow.quarters EXCEPT ![idx] = @ + 1],
                                     total |-> officeRow.total + 1])),
              quarterTotals |-> [acc.quarterTotals EXCEPT ![idx] = @ + 1],
              grandTotal |-> acc.grandTotal + 1,
              officesSet |-> acc.officesSet \cup {office}]

RECURSIVE CountOfficeCases(_, _, _, _, _)
CountOfficeCases(acc, cs, year, mode, availableYears) ==
    IF cs = <<>> THEN acc
    ELSE CountOfficeCases(CountOfficeCase(acc, Head(cs), year, mode, availableYears),
                          Tail(cs), year, mode, availableYears)

\* [...REGION_ORDER.filter(r => regionMap.has(r)),
\*  ...regionNames.filter(r => !REGION_ORDER.includes(r))]
OrderedRegions(regionNames) ==
    FilterIn(REGION_ORDER, {regionNames[i] : i \in 1..Len(regionNames)})
    \o FilterIn(regionNames,
                {regionNames[i] : i \in 1..Len(regionNames)}
                    \ {REGION_ORDER[i] : i \in 1..Len(REGION_ORDER)})

\* totals[idx] += count over the rows of a region.
ColumnSums(rows, n) ==
    [idx \in 1..n |-> SumOver([r \in 1..Len(rows) |-> rows[r].quarters[idx]],
                              1..Len(rows))]

\* orderedRegions.map(...): the region's offices sorted by name, its per-period
\* totals and its total.
RegionRowOf(region, officeMap, n) ==
    LET offices == SortedStrings(DOMAIN officeMap)
        rows == [r \in 1..Len(offices) |->
                    [office |-> offices[r],
                     quarters |-> officeMap[offices[r]].quarters,
                     total |-> officeMap[offices[r]].total]]
        totals == ColumnSums(rows, n)
    IN  [region |-> region, rows |-> rows, quarterTotals |-> totals,
         total |-> SumOver(totals, 1..n)]

\* CaseMatrix `matrix` for the office view mode `mode`.
OfficeMatrixOf(cs, year, mode) ==
    LET acc == CountOfficeCases(
                   [regionNames |-> <<>>, regionMap |-> EmptyRecord,
                    quarterTotals |-> ZeroCounts(PeriodCount(mode)),
                    grandTotal |-> 0, officesSet |-> {}],
                   cs, year, mode, TopYears(cs))
        ordered == OrderedRegions(acc.regionNames)
    IN  [regions |-> [r \in 1..Len(ordered) |->
                         RegionRowOf(ordered[r], acc.regionMap[ordered[r]],
                                     PeriodCount(mode))],
         quarterTotals |-> acc.quarterTotals,
         grandTotal |-> acc.grandTotal,
         officeCount |-> Cardinality(acc.officesSet),
         caseCount |-> acc.grandTotal]

\* The `regions` column list of the amount matrices:
\* [...REGION_ORDER, ...Array.from(extraRegions).filter(...).sort()]
AmountRegionsOf(cs, year) ==
    REGION_ORDER
    \o SortedStrings(
           {RegionOf(cs[i]) :
               i \in {j \in 1..Len(cs) :
                         /\ parseAmount(cs[j].amount) # 0
                         /\ parseDateInput(cs[j].dateReceived).valid
                         /\ parseDateInput(cs[j].dateReceived).year = year}}
           \ {REGION_ORDER[i] : i \in 1..Len(REGION_ORDER)})

(***************************************************************************)
(* caseUtils: status and priority vocabulary, overdue days                 *)
(***************************************************************************)
\* null, the result of the normalisers on a missing value.
NULL == <<"null">>

statusNormalizeMap ==
    (<<"o", "p", "e", "n">> :> <<"N", "o", "t", " ", "c", "o", "n", "f", "i", "r", "m", "e", "d">>) @@
    (<<"o", "p", "e", "n", " ">> :> <<"N", "o", "t", " ", "c", "o", "n", "f", "i", "r", "m", "e", "d">>) @@
    (<<"i", "n", " ", "p", "r", "o", "g", "r", "e", "s", "s">> :> <<"I", "n", " ", "P", "r", "o", "g", "r", "e", "s", "s">>) @@
    (<<"i", "n", " ", "p", "i", "p", "e", "l", "i", "n", "e">> :> <<"I", "n", " ", "P", "i", "p", "e", "l", "i", "n", "e">>) @@
    (<<"n", "o", "t", " ", "a", "c", "c", "o", "m", "o", "d", "a", "t", "e", "d">> :> <<"N", "o", "t", " ", "a", "c", "c", "o", "m", "m", "o", "d", "a", "t", "e", "d">>) @@
    (<<"n", "o", "t", " ", "a", "c", "c", "o", "m", "m", "o", "d", "a", "t", "e", "d">> :> <<"N", "o", "t", " ", "a", "c", "c", "o", "m", "m", "o", "d", "a", "t", "e", "d">>) @@
    (<<"n", "o", "t", " ", "d", "o", "a", "b", "l", "e">> :> <<"N", "o", "t", " ", "d", "o", "a", "b", "l", "e">>) @@
    (<<"n", "o", "t", " ", "d", "o", "a", "b", "l", "e", " ">> :> <<"N", "o", "t", " ", "d", "o", "a", "b", "l", "e">>) @@
    (<<"n", "o", "t", " ", "c", "o", "n", "f", "i", "r", "m", "e", "d">> :> <<"N", "o", "t", " ", "c", "o", "n", "f", "i", "r", "m", "e", "d">>) @@
    (<<"n", "o", "t", " ", "c", "o", "n", "f", "i", "r", "m", "e", "d", " ">> :> <<"N", "o", "t", " ", "c", "o", "n", "f", "i", "r", "m", "e", "d">>) @@
    (<<"c", "a", "n", "c", "e", "l", "l", "e", "d">> :> <<"C", "a", "n", "c", "e", "l", "l", "e", "d">>) @@
    (<<"c", "a", "n", "c", "e", "l", "e", "d">> :> <<"C", "a", "n", "c", "e", "l", "l", "e", "d">>) @@
    (<<"c", "a", "n", "c", "e", "l", "l", "e", "d", " ">> :> <<"C", "a", "n", "c", "e", "l", "l", "e", "d">>) @@
    (<<"c", "l", "o", "s", "e", "d">> :> <<"C", "l", "o", "s", "e", "d">>)

priorityNormalizeMap ==
    (<<"p", "1">> :> <<"P", "1">>) @@
    (<<"p", "2">> :> <<"P", "2">>) @@
    (<<"p", "3">> :> <<"P", "3">>) @@
    (<<"p", "1", "a">> :> <<"P", "1", "A">>) @@
    (<<"m", "c", "t">> :> <<"M", "C", "T">>) @@
    (<<"1", "0">> :> <<"1", "0">>) @@
    (<<"9">> :> <<"9">>) @@
    (<<"s", "o", "f", "t", "w", "a", "r", "e">> :> <<"S", "o", "f", "t", "w", "a", "r", "e">>) @@
    (<<"h", "i", "g", "h">> :> <<"P", "1">>) @@
    (<<"m", "e", "d", "i", "u", "m">> :> <<"P", "2">>) @@
    (<<"l", "o", "w">> :> <<"P", "3">>)

\* map[lower] || trimmed
Lookup(map, lower, trimmed) == IF lower \in DOMAIN map THEN map[lower] ELSE trimmed

normalizeStatus(status) ==
    IF ~Truthy(status) THEN NULL
    ELSE IF Trim(status) = <<>> THEN NULL
    ELSE Lookup(statusNormalizeMap, ToLowerCase(Trim(status)), Trim(status))

normalizePriority(priority) ==
    IF ~Truthy(priority) THEN NULL
    ELSE IF Trim(priority) = <<>> THEN NULL
    ELSE Lookup(priorityNormalizeMap, ToLowerCase(Trim(priority)), Trim(priority))

canonicalStatuses ==
    <<<<"N", "o", "t", " ", "c", "o", "n", "f", "i", "r", "m", "e", "d">>,
      <<"I", "n", " ", "P", "r", "o", "g", "r", "e", "s", "s">>,
      <<"I", "n", " ", "P", "i", "p", "e", "l", "i", "n", "e">>,
      <<"N", "o", "t", " ", "a", "c", "c", "o", "m", "m", "o", "d", "a", "t", "e", "d">>,
      <<"G", "P", "/", "T", "M", "T", " ", "c", "a", "p", "a", "c", "i", "t", "y">>,
      <<"S", "t", "r", "a", "t", "e", "g", "y", " ", "c", "a", "p", "a", "c", "i", "t", "y">>,
      <<"C", "a", "n", "c", "e", "l", "l", "e", "d">>,
      <<"N", "o", "t", " ", "d", "o", "a", "b", "l", "e">>,
      <<"E", "s", "c", "a", "l", "a", "t", "e", "d">>,
      <<"D", "e", "l", "i", "v", "e", "r", "e", "d">>,
      <<"C", "l", "o", "s", "e", "d">>>>

canonicalPriorities == <<<<"P", "1">>, <<"P", "1", "A">>, <<"P", "2">>, <<"P", "3">>>>

closedStatuses ==
    <<<<"C", "l", "o", "s", "e", "d">>,
      <<"D", "e", "l", "i", "v", "e", "r", "e", "d">>,
      <<"C", "a", "n", "c", "e", "l", "l", "e", "d">>,
      <<"N", "o", "t", " ", "a", "c", "c", "o", "m", "m", "o", "d", "a", "t", "e", "d">>,
      <<"N", "o", "t", " ", "d", "o", "a", "b", "l", "e">>,
      <<"N", "o", "t", " ", "c", "o", "n", "f", "i", "r", "m", "e", "d">>>>

\* new Set(list.map((s) => s.toLowerCase()))
LowerSet(list) == {ToLowerCase(list[i]) : i \in 1..Len(list)}

closedStatusesSet == LowerSet(closedStatuses)

isActiveStatus_Raw(status) ==
    IF ~Truthy(status) \/ Trim(status) = <<>> THEN FALSE
    ELSE ToLowerCase(status) \notin closedStatusesSet

isActiveStatus(status) ==
    LET normalized == normalizeStatus(status)
    IN  IF normalized = NULL THEN FALSE
        ELSE ToLowerCase(normalized) \notin closedStatusesSet

\* The days before the first day of each month of a common year.
DaysBeforeMonth == <<0, 31, 59, 90, 120, 151, 181, 212, 243, 273, 304, 334>>

IsLeapYear(y) == (y % 4 = 0 /\ y % 100 # 0) \/ y % 400 = 0

\* date.getTime() in days: the number of the day in the proleptic Gregorian
\* calendar. A date-only ISO string is midnight UTC, and the clock's zone is
\* taken to be UTC, so every instant drawn is a whole number of days.
DayNumber(date) ==
    LET y == date.year - 1
    IN  365 * y + (y \div 4) - (y \div 100) + (y \div 400)
        + DaysBeforeMonth[date.month + 1] + date.day
        + (IF IsLeapYear(date.year) /\ date.month >= 2 THEN 1 ELSE 0)

\* getOverdueBy; `today` is the day number of new Date() at 00:00.
getOverdueBy(promisedDate, status, today) ==
    LET promised == parseDateInput(promisedDate)
    IN  IF ~promised.valid THEN 0
        ELSE IF ~isActiveStatus(status) THEN 0
        ELSE IF today - DayNumber(promised) > 0 THEN today - DayNumber(promised)
        ELSE 0

(***************************************************************************)
(* page.tsx: filteredCases, the Others expansion and the alerts            *)
(***************************************************************************)
primaryStatusFilters ==
    <<<<"N", "o", "t", " ", "c", "o", "n", "f", "i", "r", "m", "e", "d">>,
      <<"I", "n", " ", "P", "r", "o", "g", "r", "e", "s", "s">>,
      <<"I", "n", " ", "P", "i", "p", "e", "l", "i", "n", "e">>,
      <<"D", "e", "l", "i", "v", "e", "r", "e", "d">>,
      <<"C", "a", "n", "c", "e", "l", "l", "e", "d">>,
      <<"C", "l", "o", "s", "e", "d">>>>

emptyFilters ==
    [status |-> <<>>, priority |-> <<>>, team |-> <<>>, office |-> <<>>,
     region |-> <<>>, type |-> <<>>, dueBucket |-> "",
     dateReceivedFrom |-> <<>>, dateReceivedTo |-> <<>>]

\* arr.includes(x)
Includes(arr, x) == \E i \in 1..Len(arr) : arr[i] = x

\* hay.includes(needle) on strings
IncludesText(hay, needle) ==
    \E i \in 1..(Len(hay) + 1) :
        i + Len(needle) - 1 <= Len(hay) /\ SubSeq(hay, i, i + Len(needle) - 1) = needle

\* The status and priority predicates of filteredCases: `selected` is
\* filters.status or filters.priority, `normalized` the normalised value of the
\* case and `canonical` the canonical vocabulary.
MatchesVocabulary(selected, normalized, canonical) ==
    \/ Len(selected) = 0
    \/ normalized # NULL /\ Includes(selected, normalized)
    \/ /\ Includes(selected, S_Others)
       /\ ~(normalized # NULL /\ ToLowerCase(normalized) \in LowerSet(canonical))

\* if (filters.f && c.f !== filters.f) return false, for the fields drawn.
MatchesFields(c, f) ==
    /\ (Truthy(f.team) => c.team = f.team)
    /\ (Truthy(f.office) => c.office = f.office)
    /\ (Truthy(f.region) => c.region = f.region)
    /\ (Truthy(f.type) => c.type = f.type)

MatchesDateRange_ExclusiveTo(c, f) ==
    LET received == parseDateInput(c.dateReceived)
        from == parseDateInput(f.dateReceivedFrom)
        to == parseDateInput(f.dateReceivedTo)
    IN  /\ (Truthy(f.dateReceivedFrom) /\ from.valid)
              => (received.valid /\ DayNumber(received) >= DayNumber(from))
        /\ (Truthy(f.dateReceivedTo) /\ to.valid)
              => (received.valid /\ DayNumber(received) < DayNumber(to))

\* The received-date range predicate.
MatchesDateRange(c, f) ==
    LET received == parseDateInput(c.dateReceived)
        from == parseDateInput(f.dateReceivedFrom)
        to == parseDateInput(f.dateReceivedTo)
    IN  /\ (Truthy(f.dateReceivedFrom) /\ from.valid)
              => (received.valid /\ DayNumber(received) >= DayNumber(from))
        /\ (Truthy(f.dateReceivedTo) /\ to.valid)
              => (received.valid /\ DayNumber(received) <= DayNumber(to))

MatchesDueBucket_AnyStatus(c, f, today) ==
    IF f.dueBucket = "" THEN TRUE
    ELSE IF f.dueBucket = "no-due-date" THEN ~Truthy(c.promisedDateForDelivery)
    ELSE LET promised == parseDateInput(c.promisedDateForDelivery)
             due == DayNumber(promised)
         IN  /\ Truthy(c.promisedDateForDelivery)
             /\ promised.valid
             /\ CASE f.dueBucket = "overdue" -> ~(due >= today)
                  [] f.dueBucket = "due-soon" -> ~(due < today \/ due > today + 2)
                  [] f.dueBucket = "this-week" -> ~(due < today \/ due > today + 7)
                  [] f.dueBucket = "next-week" ->
                        ~(due <= today + 7 \/ due > today + 14)
                  [] OTHER -> TRUE

\* The due-bucket predicate; `today` is the day number of new Date() at 00:00.
MatchesDueBucket(c, f, today) ==
    IF f.dueBucket = "" THEN TRUE
    ELSE IF f.dueBucket = "no-due-date" THEN ~Truthy(c.promisedDateForDelivery)
    ELSE LET promised == parseDateInput(c.promisedDateForDelivery)
             due == DayNumber(promised)
         IN  /\ Truthy(c.promisedDateForDelivery)
             /\ promised.valid
             /\ CASE f.dueBucket = "overdue" ->
                        isActiveStatus(c.status) /\ ~(due >= today)
                  [] f.dueBucket = "due-soon" ->
                        isActiveStatus(c.status) /\ ~(due < today \/ due > today + 2)
                  [] f.dueBucket = "this-week" ->
                        isActiveStatus(c.status) /\ ~(due < today \/ due > today + 7)
                  [] f.dueBucket = "next-week" ->
                        isActiveStatus(c.status)
                        /\ ~(due <= today + 7 \/ due > today + 14)
                  [] OTHER -> TRUE

\* [..fields..].filter(Boolean).join(' ').toLowerCase(), for the fields drawn.
Haystack(c) == IF Truthy(c.team) THEN ToLowerCase(c.team) ELSE <<>>

MatchesSearch_NoTrim(c, search) ==
    LET searchLower == ToLowerCase(search)
    IN  searchLower = <<>> \/ IncludesText(Haystack(c), searchLower)

MatchesSearch(c, search) ==
    LET searchLower == ToLowerCase(Trim(search))
    IN  searchLower = <<>> \/ IncludesText(Haystack(c), searchLower)

\* getColumnValue for the columns drawn; any other key gives ''.
getColumnValue(c, key) ==
    IF key = "status" THEN (IF Truthy(c.status) THEN c.status ELSE <<>>)
    ELSE IF key = "team" THEN (IF Truthy(c.team) THEN c.team ELSE <<>>)
    ELSE <<>>

\* Every column filter with a non-blank value is contained in the column.
MatchesColumnFilters(c, columns) ==
    \A key \in DOMAIN columns :
        Trim(columns[key]) # <<>> =>
            IncludesText(ToLowerCase(getColumnValue(c, key)), ToLowerCase(columns[key]))

\* The callback of cases.filter in filteredCases.
PassesFilters(c, f, search, columns, today) ==
    /\ MatchesVocabulary(f.status, normalizeStatus(c.status), canonicalStatuses)
    /\ MatchesVocabulary(f.priority, normalizePriority(c.priorityLevel),
                         canonicalPriorities)
    /\ MatchesFields(c, f)
    /\ MatchesDateRange(c, f)
    /\ MatchesDueBucket(c, f, today)
    /\ MatchesSearch(c, search)
    /\ MatchesColumnFilters(c, columns)

\* parseDateInput(c.dateReceived)?.getTime() || 0
ReceivedTime(c) ==
    LET date == parseDateInput(c.dateReceived)
    IN  IF date.valid THEN DayNumber(date) ELSE 0

\* results.sort((a, b) => dateB - dateA), a stable sort: position i is put
\* behind the positions already placed whose date is not earlier.
RECURSIVE InsertByDate(_, _, _)
InsertByDate(sorted, i, cs) ==
    IF sorted = <<>> THEN <<i>>
    ELSE IF ReceivedTime(cs[Head(sorted)]) >= ReceivedTime(cs[i])
         THEN <<Head(sorted)>> \o InsertByDate(Tail(sorted), i, cs)
         ELSE <<i>> \o sorted

RECURSIVE SortByDateDescending(_, _, _)
SortByDateDescending(sorted, rest, cs) ==
    IF rest = <<>> THEN sorted
    ELSE SortByDateDescending(InsertByDate(sorted, Head(rest), cs), Tail(rest), cs)

\* cases.filter(...) as the list of the positions kept.
RECURSIVE KeptPositions(_, _, _, _, _, _)
KeptPositions(cs, i, f, search, columns, today) ==
    IF i > Len(cs) THEN <<>>
    ELSE (IF PassesFilters(cs[i], f, search, columns, today) THEN <<i>> ELSE <<>>)
         \o KeptPositions(cs, i + 1, f, search, columns, today)

\* filteredCases, as the list of the positions of the cases it holds.
FilteredCasesOf(cs, f, search, columns, today) ==
    SortByDateDescending(<<>>, KeptPositions(cs, 1, f, search, columns, today), cs)

\* statusOverflowOptions / priorityOverflowOptions: the normalised values of
\* the cases outside `base`, sorted.
OverflowOptions(normalizedValues, base) ==
    SortedStrings({v \in normalizedValues :
                      v # NULL /\ Trim(v) # <<>> /\ ToLowerCase(Trim(v)) \notin LowerSet(base)})

statusOverflowOptions(cs) ==
    OverflowOptions({normalizeStatus(cs[i].status) : i \in 1..Len(cs)},
                    primaryStatusFilters)

priorityOverflowOptions(cs) ==
    OverflowOptions({normalizePriority(cs[i].priorityLevel) : i \in 1..Len(cs)},
                    canonicalPriorities)

\* Array.from(new Set(arr)): the first occurrence of each element.
RECURSIVE Unique(_)
Unique(arr) ==
    IF arr = <<>> THEN <<>>
    ELSE LET front == Unique(SubSeq(arr, 1, Len(arr) - 1))
         IN  IF Includes(front, arr[Len(arr)]) THEN front ELSE Append(front, arr[Len(arr)])

\* arr.filter(x => x !== 'Others')
RECURSIVE WithoutOthers(_)
WithoutOthers(arr) ==
    IF arr = <<>> THEN <<>>
    ELSE IF Head(arr) = S_Others THEN WithoutOthers(Tail(arr))
         ELSE <<Head(arr)>> \o WithoutOthers(Tail(arr))

\* The updater of the two Others effects: a selection holding 'Others' becomes
\* the other selected values followed by the overflow options.
ExpandOthers(selected, overflow) ==
    IF ~Includes(selected, S_Others) THEN selected
    ELSE Unique(WithoutOthers(selected) \o overflow)

\* The effects on [statusOverflowOptions] and [priorityOverflowOptions]; both
\* lists are rebuilt whenever `cases` changes.
OthersEffects(f, cs) ==
    [f EXCEPT !.status = ExpandOthers(@, statusOverflowOptions(cs)),
              !.priority = ExpandOthers(@, priorityOverflowOptions(cs))]

\* alerts.dueSoon and alerts.overdue over the filtered cases `kept`.
RECURSIVE SelectPositions(_, _)
SelectPositions(kept, wanted) ==
    IF kept = <<>> THEN <<>>
    ELSE (IF Head(kept) \in wanted THEN <<Head(kept)>> ELSE <<>>)
         \o SelectPositions(Tail(kept), wanted)

HasActiveDueDate(c) ==
    /\ Truthy(c.promisedDateForDelivery)
    /\ isActiveStatus(c.status)
    /\ parseDateInput(c.promisedDateForDelivery).valid

AlertsOf(cs, kept, today) ==
    [dueSoon |-> SelectPositions(kept,
                     {i \in 1..Len(cs) :
                         /\ HasActiveDueDate(cs[i])
                         /\ DayNumber(parseDateInput(cs[i].promisedDateForDelivery)) >= today
                         /\ DayNumber(parseDateInput(cs[i].promisedDateForDelivery))
                               <= today + 2}),
     overdue |-> SelectPositions(kept,
                     {i \in 1..Len(cs) :
                         /\ HasActiveDueDate(cs[i])
                         /\ DayNumber(parseDateInput(cs[i].promisedDateForDelivery)) < today})]

(***************************************************************************)
(* Inputs                                                                  *)
(***************************************************************************)
MaxCases == 2           \* longest case list of SpecCases
MaxBilledCases == 1     \* longest case list of Spec
MaxAdjustments == 2     \* longest adjustment list of Spec

CurrentYear == 2024     \* new Date().getFullYear()

D_2024_03 == <<"2", "0", "2", "4", "-", "0", "3", "-", "1", "5">>
D_2024_11 == <<"2", "0", "2", "4", "-", "1", "1", "-", "1", "5">>
D_2023_03 == <<"2", "0", "2", "3", "-", "0", "3", "-", "1", "5">>
S_NA      == <<"N", "A">>

S_100     == <<"1", "0", "0">>
S_200     == <<"2", "0", "0">>
S_1200    == <<"$", "1", ",", "2", "0", "0">>
S_abc     == <<"a", "b", "c">>
S_Yes     == <<"Y", "e", "s">>
S_X       == <<"X">>
S_X_Y     == <<"X", ",", " ", "Y">>
S_XandY   == <<"X", " ", "a", "n", "d", " ", "Y">>
S_Ops     == <<"O", "p", "s">>
S_Dev     == <<"D", "e", "v">>
S_Mars    == <<"M", "a", "r", "s">>
S_Blank   == <<" ">>
S_London  == <<"L", "o", "n", "d", "o", "n">>
S_Paris   == <<"P", "a", "r", "i", "s">>
S_Boston  == <<"B", "o", "s", "t", "o", "n">>
S_Zulu    == <<"Z", "u", "l", "u">>
S_InProgress == <<"I", "n", " ", "P", "r", "o", "g", "r", "e", "s", "s">>
S_P1      == <<"P", "1">>

\* A case received in March 2024: billing type Full, amount 100, no add-ons.
BaseCase ==
    [dateReceived |-> D_2024_03, type |-> S_Full, amount |-> S_100,
     addOnsBilling |-> <<>>, addOnsOnly |-> UNDEF, addOnIpDelivered |-> <<>>,
     team |-> S_Ops, region |-> S_EMEA, office |-> S_London,
     status |-> S_InProgress, priorityLevel |-> S_P1,
     promisedDateForDelivery |-> <<>>]

\* The cases that differ from BaseCase in the received date.
DateCases ==
    {[BaseCase EXCEPT !.dateReceived = d] : d \in {D_2024_11, D_2023_03, S_NA, UNDEF}}

\* Every combination of type, add-on amount and add-ons-only flag, and for the
\* cases with an add-on amount every form of the delivered add-on list.
AddonCases ==
    {[BaseCase EXCEPT !.type = t, !.addOnsBilling = b, !.addOnsOnly = o,
                      !.addOnIpDelivered = ip] :
        t \in {<<>>, S_Full}, b \in {<<>>, S_200}, o \in {UNDEF, S_Yes},
        ip \in {<<>>}}
    \cup
    {[BaseCase EXCEPT !.type = t, !.addOnsBilling = S_200, !.addOnsOnly = o,
                      !.addOnIpDelivered = ip] :
        t \in {S_Full}, o \in {UNDEF, S_Yes}, ip \in {S_X, S_X_Y, S_XandY}}

\* The cases that differ from BaseCase in the type or the amount text.
AmountCases ==
    {[BaseCase EXCEPT !.type = S_Short],
     [BaseCase EXCEPT !.amount = S_1200],
     [BaseCase EXCEPT !.amount = <<>>],
     [BaseCase EXCEPT !.amount = S_abc],
     [BaseCase EXCEPT !.addOnsBilling = S_Blank]}

\* The cases that differ from BaseCase in the team or the region.
TeamRegionCases ==
    {[BaseCase EXCEPT !.team = t] : t \in {<<>>, S_Blank, S_Dev}}
    \cup {[BaseCase EXCEPT !.region = r] : r \in {UNDEF, S_Mars}}

CasePool == {BaseCase} \cup DateCases \cup AddonCases \cup AmountCases \cup TeamRegionCases

\* The cases of Spec, whose lists are combined with adjustment lists.
BilledCasePool ==
    {BaseCase,
     [BaseCase EXCEPT !.amount = S_1200, !.addOnsBilling = S_200],
     [BaseCase EXCEPT !.dateReceived = D_2024_11, !.type = S_Short],
     [BaseCase EXCEPT !.dateReceived = D_2023_03],
     [BaseCase EXCEPT !.dateReceived = S_NA],
     [BaseCase EXCEPT !.type = <<>>]}

Years == {2023, 2024}

Adjustment(y, m, t, a) == [year |-> y, month |-> m, type |-> t, amount |-> a]

\* Rows of billing_adjustments: month is 1..12 by the table's CHECK constraint.
AdjustmentPool ==
    {Adjustment(2024, m, S_Full, a) : m \in {3, 11}, a \in {0 - 500, 300}}
    \cup {Adjustment(2023, 3, S_Full, 0 - 500), Adjustment(2024, 3, S_Short, 300)}

(***************************************************************************)
(* db.ts: the table and the case cache                                     *)
(***************************************************************************)
CACHE_DURATION == 30000     \* const CACHE_DURATION
DefaultRetries == 3         \* retries = 3
MaxStatements == 2          \* most statements applied to the table
MaxTicks == 1               \* most steps of the server clock

\* One step of the server clock.
TickLength == CACHE_DURATION

\* let casesCache: { data, timestamp } | null = null
NoCache == [present |-> FALSE]

Cached(data, timestamp) == [present |-> TRUE, data |-> data, timestamp |-> timestamp]

\* casesCache && Date.now() - casesCache.timestamp < CACHE_DURATION
IsFresh(cache, clock) == cache.present /\ clock - cache.timestamp < CACHE_DURATION

NoFetch == [pc |-> "idle"]

NoWrite == [pc |-> "idle"]

NoReturn == [call |-> "none"]

\* `table` is the number of statements applied to the table; a SELECT gives
\* the table as it is after that many statements.
InitServer ==
    /\ table = 0
    /\ casesCache = NoCache
    /\ casesCacheLight = NoCache
    /\ now = 0
    /\ fetch = NoFetch
    /\ write = NoWrite
    /\ returned = NoReturn
    /\ settled = 0

\* Nothing is awaited, shown or persisted when the page is first rendered.
NoDelivery == [op |-> "none"]

NoMove == [pc |-> "idle", outcome |-> "none"]

InitClient ==
    /\ pending = {}
    /\ stopped = FALSE
    /\ error = NULL
    /\ isLoading = FALSE
    /\ issued = 0
    /\ delivered = NoDelivery
    /\ billingRows = <<>>
    /\ move = NoMove

(***************************************************************************)
(* State and handlers                                                      *)
(***************************************************************************)
Init ==
    /\ cases = <<>>
    /\ adjustments = <<>>
    /\ selectedYear = CurrentYear
    /\ officeViewMode = "quarterly"
    /\ filters = emptyFilters
    /\ debouncedSearch = <<>>
    /\ columnFilters = EmptyRecord
    /\ InitServer
    /\ InitClient

\* availableYears: the years of the cases that have a received date.
AvailableYears(cs) ==
    {parseDateInput(cs[i].dateReceived).year :
        i \in {j \in 1..Len(cs) : parseDateInput(cs[j].dateReceived).valid}}

\* page.tsx handleAddCase, the create having succeeded: setCases([...cases, created]),
\* then the Others effects, which depend on the case list.
AddCase(c) ==
    /\ cases' = Append(cases, c)
    /\ filters' = OthersEffects(filters, cases')
    /\ UNCHANGED <<adjustments, selectedYear, officeViewMode, debouncedSearch,
                   columnFilters>>
    /\ UNCHANGED asyncVars

\* The year <select>: its options are availableYears.
SetSelectedYear(year) ==
    /\ year \in AvailableYears(cases)
    /\ year # selectedYear
    /\ selectedYear' = year
    /\ UNCHANGED <<cases, adjustments, viewVars>>
    /\ UNCHANGED asyncVars

\* ORDER BY year DESC, month DESC
InQueryOrder(adjs) ==
    \A i \in 1..(Len(adjs) - 1) :
        \/ adjs[i].year > adjs[i + 1].year
        \/ adjs[i].year = adjs[i + 1].year /\ adjs[i].month >= adjs[i + 1].month

IndexPermutations(n) == {p \in [1..n -> 1..n] : \A i, j \in 1..n : p[i] = p[j] => i = j}

\* getAllAdjustments on a table holding `rows`: the rows in query order; the
\* order of rows with equal year and month is left to the database.
QueryResults(rows) ==
    {r \in {[i \in 1..Len(rows) |-> rows[p[i]]] : p \in IndexPermutations(Len(rows))} :
        InQueryOrder(r)}

\* handleSaveAdjustment for a new adjustment: addAdjustment, then loadAdjustments.
\* The form has no year field: the adjustment is for the selected year.
SaveAdjustment(adj) ==
    /\ adj.year = selectedYear
    /\ adjustments' \in QueryResults(Append(adjustments, adj))
    /\ UNCHANGED <<cases, selectedYear, viewVars>>
    /\ UNCHANGED asyncVars

\* loadAdjustments finding a row that another session has persisted.
LoadAdjustments(adj) ==
    /\ adjustments' \in QueryResults(Append(adjustments, adj))
    /\ UNCHANGED <<cases, selectedYear, viewVars>>
    /\ UNCHANGED asyncVars

\* handleDeleteAdjustment of the i-th listed adjustment: removeAdjustment, then
\* loadAdjustments.
DeleteAdjustment(i) ==
    /\ i \in 1..Len(adjustments)
    /\ adjustments' \in QueryResults(SubSeq(adjustments, 1, i - 1)
                                     \o SubSeq(adjustments, i + 1, Len(adjustments)))
    /\ UNCHANGED <<cases, selectedYear, viewVars>>
    /\ UNCHANGED asyncVars

Next ==
    \/ \E c \in BilledCasePool : Len(cases) < MaxBilledCases /\ AddCase(c)
    \/ \E year \in Years : SetSelectedYear(year)
    \/ \E adj \in AdjustmentPool : Len(adjustments) < MaxAdjustments /\ SaveAdjustment(adj)
    \/ \E adj \in AdjustmentPool : Len(adjustments) < MaxAdjustments /\ LoadAdjustments(adj)
    \/ \E i \in 1..Len(adjustments) : DeleteAdjustment(i)

Spec == Init /\ [][Next]_vars

\* The views over the case list alone, no adjustment having been entered.
NextCases ==
    \/ \E c \in CasePool : Len(cases) < MaxCases /\ AddCase(c)
    \/ \E year \in Years : SetSelectedYear(year)

SpecCases == Init /\ [][NextCases]_vars

(***************************************************************************)
(* The region view: CaseMatrix over the filtered cases                     *)
(***************************************************************************)
\* Cases that differ in received date, region and office.
MatrixCasePool ==
    {BaseCase,
     [BaseCase EXCEPT !.dateReceived = D_2024_11, !.office = S_Paris],
     [BaseCase EXCEPT !.region = S_Americas, !.office = S_Boston],
     [BaseCase EXCEPT !.region = S_Zulu, !.office = S_Paris],
     [BaseCase EXCEPT !.region = S_Mars],
     [BaseCase EXCEPT !.region = <<>>, !.office = <<>>],
     [BaseCase EXCEPT !.dateReceived = D_2023_03, !.region = UNDEF, !.office = S_Blank],
     [BaseCase EXCEPT !.dateReceived = S_NA]}

OfficeViewModes == {"yearly", "quarterly", "monthly"}

\* handleAddCase with the region view shown: CaseMatrix's effect on
\* [yearOptions, selectedYear] moves a year that is no option to the latest.
AddCaseInRegionView(c) ==
    /\ cases' = Append(cases, c)
    /\ filters' = OthersEffects(filters, cases')
    /\ selectedYear' =
           IF AvailableYears(cases') # {} /\ selectedYear \notin AvailableYears(cases')
           THEN CHOOSE y \in AvailableYears(cases') : \A z \in AvailableYears(cases') : z <= y
           ELSE selectedYear
    /\ UNCHANGED <<adjustments, officeViewMode, debouncedSearch, columnFilters>>
    /\ UNCHANGED asyncVars

\* The Yearly / Quarterly / Monthly buttons of the office matrix.
SetOfficeViewMode(mode) ==
    /\ mode # officeViewMode
    /\ officeViewMode' = mode
    /\ UNCHANGED <<cases, adjustments, selectedYear, filters, debouncedSearch,
                   columnFilters>>
    /\ UNCHANGED asyncVars

NextMatrix ==
    \/ \E c \in MatrixCasePool : Len(cases) < MaxCases /\ AddCaseInRegionView(c)
    \/ \E year \in Years : SetSelectedYear(year)
    \/ \E mode \in OfficeViewModes : SetOfficeViewMode(mode)

SpecMatrix == Init /\ [][NextMatrix]_vars

\* new Date() at 00:00, as a day number.
Today == DayNumber(parseDateInput(D_2024_03))

\* filteredCases, as positions; and as the `cases` prop of CaseMatrix.
filteredCases == FilteredCasesOf(cases, filters, debouncedSearch, columnFilters, Today)

PropOf(cs, kept) == [k \in 1..Len(kept) |-> cs[kept[k]]]

matrix == OfficeMatrixOf(PropOf(cases, filteredCases), selectedYear, officeViewMode)

(***************************************************************************)
(* The table view: filters, search, column filters, alerts and KPIs        *)
(***************************************************************************)
D_2024_03_10 == <<"2", "0", "2", "4", "-", "0", "3", "-", "1", "0">>
D_2024_03_14 == <<"2", "0", "2", "4", "-", "0", "3", "-", "1", "4">>
D_2024_03_16 == <<"2", "0", "2", "4", "-", "0", "3", "-", "1", "6">>
D_2024_03_17 == <<"2", "0", "2", "4", "-", "0", "3", "-", "1", "7">>
D_2024_03_18 == <<"2", "0", "2", "4", "-", "0", "3", "-", "1", "8">>
D_2024_03_20 == <<"2", "0", "2", "4", "-", "0", "3", "-", "2", "0">>
D_2024_03_22 == <<"2", "0", "2", "4", "-", "0", "3", "-", "2", "2">>
D_2024_03_23 == <<"2", "0", "2", "4", "-", "0", "3", "-", "2", "3">>
D_2024_03_29 == <<"2", "0", "2", "4", "-", "0", "3", "-", "2", "9">>
D_2024_03_30 == <<"2", "0", "2", "4", "-", "0", "3", "-", "3", "0">>
S_Delivered == <<"D", "e", "l", "i", "v", "e", "r", "e", "d">>
S_cancelled_ == <<"c", "a", "n", "c", "e", "l", "l", "e", "d", " ">>
S_Escalated == <<"E", "s", "c", "a", "l", "a", "t", "e", "d">>
S_OnHold    == <<"O", "n", " ", "H", "o", "l", "d">>
S_high      == <<"h", "i", "g", "h">>
S_MCT       == <<"M", "C", "T">>
S_P3        == <<"P", "3">>
S_ops       == <<"o", "p", "s">>
S_Open      == <<"O", "p", "e", "n">>
S_deliv     == <<"d", "e", "l", "i", "v">>

\* Cases that differ in status, priority, received date and promised date.
FilterCasePool ==
    {BaseCase,
     [BaseCase EXCEPT !.status = S_Delivered, !.priorityLevel = S_high,
                      !.dateReceived = D_2024_11,
                      !.promisedDateForDelivery = D_2024_03_10],
     [BaseCase EXCEPT !.status = S_cancelled_, !.priorityLevel = <<>>,
                      !.dateReceived = D_2023_03, !.team = S_Dev,
                      !.promisedDateForDelivery = D_2024_03_16],
     [BaseCase EXCEPT !.status = S_Escalated, !.priorityLevel = S_MCT,
                      !.dateReceived = S_NA,
                      !.promisedDateForDelivery = D_2024_03_10],
     [BaseCase EXCEPT !.status = <<>>, !.priorityLevel = UNDEF,
                      !.dateReceived = UNDEF, !.team = <<>>,
                      !.promisedDateForDelivery = S_NA],
     [BaseCase EXCEPT !.status = S_OnHold, !.priorityLevel = S_P3,
                      !.promisedDateForDelivery = D_2024_03_20],
     [BaseCase EXCEPT !.status = S_Open, !.promisedDateForDelivery = D_2024_03_10]}

View(f, search) == [filters |-> f, search |-> search]

\* Saved views and share links: a filter state and a search text.
SavedViewPool ==
    {View(emptyFilters, s) : s \in {<<>>, S_Blank, S_ops}}
    \cup {View([emptyFilters EXCEPT !.status = st], <<>>) :
             st \in {<<S_Delivered>>, <<S_Others>>, <<S_InProgress, S_Others>>}}
    \cup {View([emptyFilters EXCEPT !.priority = pr], <<>>) :
             pr \in {<<S_P1>>, <<S_Others>>}}
    \cup {View([emptyFilters EXCEPT !.dateReceivedFrom = from, !.dateReceivedTo = to], <<>>) :
             from \in {<<>>, D_2023_03, D_2024_03, S_abc},
             to \in {<<>>, D_2024_03, S_abc}}
    \cup {View([emptyFilters EXCEPT !.team = S_Ops], <<>>)}

\* applySavedView and the share link: setFilters(view.filters), setSearch(view.search),
\* then the debounce effect copies the search text.
ApplySavedView(view) ==
    /\ filters' = view.filters
    /\ debouncedSearch' = view.search
    /\ <<filters', debouncedSearch'>> # <<filters, debouncedSearch>>
    /\ UNCHANGED <<cases, adjustments, selectedYear, officeViewMode, columnFilters>>
    /\ UNCHANGED asyncVars

\* handleColumnFilterChange
ColumnFilterChange(key, value) ==
    /\ columnFilters' = Put(columnFilters, key, value)
    /\ columnFilters' # columnFilters
    /\ UNCHANGED <<cases, adjustments, selectedYear, officeViewMode, filters,
                   debouncedSearch>>
    /\ UNCHANGED asyncVars

\* The Clear All button: setFilters(emptyFilters), setColumnFilters({}).
ClearAll ==
    /\ filters' = emptyFilters
    /\ columnFilters' = EmptyRecord
    /\ <<filters', columnFilters'>> # <<filters, columnFilters>>
    /\ UNCHANGED <<cases, adjustments, selectedYear, officeViewMode, debouncedSearch>>
    /\ UNCHANGED asyncVars

NextFilter ==
    \/ \E c \in FilterCasePool : Len(cases) < MaxCases /\ AddCase(c)
    \/ \E view \in SavedViewPool : ApplySavedView(view)
    \/ \E value \in {S_Blank, S_deliv} : ColumnFilterChange("status", value)
    \/ ClearAll

SpecFilter == Init /\ [][NextFilter]_vars

\* Cases that differ in promised date and in status.
DueCasePool ==
    {[BaseCase EXCEPT !.promisedDateForDelivery = d] :
        d \in {<<>>, S_NA, D_2024_03_14, D_2024_03, D_2024_03_17, D_2024_03_18,
               D_2024_03_22, D_2024_03_23, D_2024_03_29, D_2024_03_30}}
    \cup {[BaseCase EXCEPT !.status = st, !.promisedDateForDelivery = D_2024_03_14] :
             st \in {S_Delivered, S_cancelled_, <<>>}}
    \cup {[BaseCase EXCEPT !.status = S_Delivered, !.promisedDateForDelivery = d] :
             d \in {<<>>, D_2024_03_16}}

DueBuckets == {"overdue", "due-soon", "this-week", "next-week", "no-due-date"}

\* applyPreset: the bucket buttons toggle filters.dueBucket.
ApplyPreset(bucket) ==
    /\ filters' = [filters EXCEPT !.dueBucket = IF @ = bucket THEN "" ELSE bucket]
    /\ UNCHANGED <<cases, adjustments, selectedYear, officeViewMode, debouncedSearch,
                   columnFilters>>
    /\ UNCHANGED asyncVars

NextDue ==
    \/ \E c \in DueCasePool : Len(cases) < MaxCases /\ AddCase(c)
    \/ \E bucket \in DueBuckets : ApplyPreset(bucket)

SpecDue == Init /\ [][NextDue]_vars

\* alerts over the filtered cases.
alerts == AlertsOf(cases, filteredCases, Today)

\* DashboardStrip overdueCases over the filtered cases; the promised date is
\* read with new Date(...), not parseDateInput.
OverdueKpiOf(cs, kept, today) ==
    SelectPositions(kept,
        {i \in 1..Len(cs) :
            /\ isActiveStatus(cs[i].status)
            /\ Truthy(cs[i].promisedDateForDelivery)
            /\ NewDate(cs[i].promisedDateForDelivery).valid
            /\ DayNumber(NewDate(cs[i].promisedDateForDelivery)) < today})

overdueCases == OverdueKpiOf(cases, filteredCases, Today)

\* DashboardStrip openCases over the filtered cases.
OpenKpiOf(cs, kept) ==
    SelectPositions(kept, {i \in 1..Len(cs) : isActiveStatus(cs[i].status)})

openCases == OpenKpiOf(cases, filteredCases)

(***************************************************************************)
(* db.ts: the calls that read and write the table                          *)
(***************************************************************************)
viewState == <<cases, adjustments, selectedYear, officeViewMode, filters,
               debouncedSearch, columnFilters>>

\* Everything outside db.ts.
clientState == <<viewState, clientVars, moveVars>>

FetchKinds == {"getAllCases", "getAllCasesLight"}

WriteKinds == {"createCase", "updateCase", "deleteCase"}

CacheOf(kind) == IF kind = "getAllCases" THEN casesCache ELSE casesCacheLight

\* getAllAdjustments keeps no cache and takes no forceRefresh.
UncachedKinds == {"getAllAdjustments"}

\* getAllCases(forceRefresh) / getAllCasesLight(.., forceRefresh) up to the
\* await: a fresh cache is returned at once, otherwise the SELECT is sent.
FetchCallStep(kind, forceRefresh) ==
    /\ fetch.pc = "idle"
    /\ IF ~forceRefresh /\ kind \notin UncachedKinds /\ IsFresh(CacheOf(kind), now)
       THEN /\ returned' = [call |-> kind, outcome |-> "data",
                            data |-> CacheOf(kind).data, forced |-> forceRefresh,
                            settled |-> settled, cached |-> TRUE]
            /\ UNCHANGED fetch
       ELSE /\ fetch' = [pc |-> "sent", kind |-> kind, forced |-> forceRefresh,
                         settled |-> settled]
            /\ returned' = NoReturn
    /\ UNCHANGED <<table, casesCache, casesCacheLight, now, write, settled>>

FetchCall(kind, forceRefresh) ==
    FetchCallStep(kind, forceRefresh) /\ UNCHANGED clientState

\* The database runs the SELECT of the call in flight.
FetchRead ==
    /\ fetch.pc = "sent"
    /\ fetch' = [pc |-> "read", kind |-> fetch.kind, forced |-> fetch.forced,
                 settled |-> fetch.settled,
                 data |-> IF fetch.kind \in UncachedKinds THEN billingRows ELSE table]
    /\ returned' = NoReturn
    /\ UNCHANGED <<table, casesCache, casesCacheLight, now, write, settled, clientState>>

\* executeQuery resolves: the cache is replaced and the rows are returned.
FetchCompleteStep ==
    /\ fetch.pc = "read"
    /\ IF fetch.kind \in UncachedKinds
       THEN UNCHANGED <<casesCache, casesCacheLight>>
       ELSE IF fetch.kind = "getAllCases"
       THEN casesCache' = Cached(fetch.data, now) /\ UNCHANGED casesCacheLight
       ELSE casesCacheLight' = Cached(fetch.data, now) /\ UNCHANGED casesCache
    /\ returned' = [call |-> fetch.kind, outcome |-> "data", data |-> fetch.data,
                    forced |-> fetch.forced, settled |-> fetch.settled,
                    cached |-> FALSE]
    /\ fetch' = NoFetch
    /\ UNCHANGED <<table, now, write, settled>>

FetchComplete == FetchCompleteStep /\ UNCHANGED clientState

FetchFailStep_ClearsCache ==
    /\ fetch.pc \in {"sent", "read"}
    /\ returned' = [call |-> fetch.kind, outcome |-> "error"]
    /\ fetch' = NoFetch
    /\ casesCache' = NoCache
    /\ casesCacheLight' = NoCache
    /\ UNCHANGED <<table, now, write, settled>>

\* executeQuery rejects: the catch block logs and rethrows.
FetchFailStep ==
    /\ fetch.pc \in {"sent", "read"}
    /\ returned' = [call |-> fetch.kind, outcome |-> "error"]
    /\ fetch' = NoFetch
    /\ UNCHANGED <<table, casesCache, casesCacheLight, now, write, settled>>

FetchFail == FetchFailStep /\ UNCHANGED clientState

\* createCase / updateCase / deleteCase up to the first await; with
\* retries < 1 the loop is not entered and null or false is returned.
WriteCall(kind, retries) ==
    /\ write.pc = "idle"
    /\ IF retries < 1
       THEN /\ returned' = [call |-> kind,
                            outcome |-> IF kind = "deleteCase" THEN "false" ELSE "null",
                            attempts |-> 0, retries |-> retries, applied |-> 0]
            /\ UNCHANGED write
       ELSE /\ write' = [pc |-> "query", kind |-> kind, retries |-> retries,
                         attempt |-> 1, applied |-> 0]
            /\ returned' = NoReturn
    /\ UNCHANGED <<table, casesCache, casesCacheLight, now, fetch, settled, clientState>>

\* The database applies the INSERT, UPDATE or DELETE of the attempt.
WriteApply ==
    /\ write.pc = "query"
    /\ table < MaxStatements
    /\ table' = table + 1
    /\ write' = [write EXCEPT !.pc = "applied", !.applied = @ + 1]
    /\ returned' = NoReturn
    /\ UNCHANGED <<casesCache, casesCacheLight, now, fetch, settled, clientState>>

\* The statement resolves with its row: clearCache() and return.
WriteSucceed ==
    /\ write.pc = "applied"
    /\ casesCache' = NoCache
    /\ casesCacheLight' = NoCache
    /\ returned' = [call |-> write.kind, outcome |-> "ok", attempts |-> write.attempt,
                    retries |-> write.retries, applied |-> write.applied]
    /\ settled' = table
    /\ write' = NoWrite
    /\ UNCHANGED <<table, now, fetch, clientState>>

WriteFail_ClearsCache ==
    /\ write.pc \in {"query", "applied"}
    /\ IF write.attempt = write.retries
       THEN /\ returned' = [call |-> write.kind,
                            outcome |-> IF write.kind = "deleteCase" THEN "false"
                                        ELSE "error",
                            attempts |-> write.attempt, retries |-> write.retries,
                            applied |-> write.applied]
            /\ write' = NoWrite
       ELSE /\ write' = [write EXCEPT !.pc = "query", !.attempt = @ + 1]
            /\ returned' = NoReturn
    /\ casesCache' = NoCache
    /\ casesCacheLight' = NoCache
    /\ UNCHANGED <<table, now, fetch, settled, clientState>>

\* The attempt throws, before or after the database applied the statement
\* (an empty result, a lost connection): the last attempt rethrows, or returns
\* false in deleteCase; any other attempt waits and the loop goes on.
WriteFail ==
    /\ write.pc \in {"query", "applied"}
    /\ IF write.attempt = write.retries
       THEN /\ returned' = [call |-> write.kind,
                            outcome |-> IF write.kind = "deleteCase" THEN "false"
                                        ELSE "error",
                            attempts |-> write.attempt, retries |-> write.retries,
                            applied |-> write.applied]
            /\ write' = NoWrite
       ELSE /\ write' = [write EXCEPT !.pc = "query", !.attempt = @ + 1]
            /\ returned' = NoReturn
    /\ UNCHANGED <<table, casesCache, casesCacheLight, now, fetch, settled, clientState>>

\* Time passes on the server.
Tick ==
    /\ now < MaxTicks * TickLength
    /\ now' = now + TickLength
    /\ returned' = NoReturn
    /\ UNCHANGED <<table, casesCache, casesCacheLight, fetch, write, settled, clientState>>

\* Reads and single-attempt writes, as bulkInsertCases makes them, with the clock.
NextCache ==
    \/ \E kind \in FetchKinds, forceRefresh \in BOOLEAN : FetchCall(kind, forceRefresh)
    \/ FetchRead
    \/ FetchComplete
    \/ FetchFail
    \/ \E kind \in WriteKinds : WriteCall(kind, 1)
    \/ WriteApply
    \/ WriteSucceed
    \/ WriteFail
    \/ Tick

SpecCache == Init /\ [][NextCache]_vars

\* Writes with every number of retries, next to reads that fill the cache.
NextRetry ==
    \/ FetchCall("getAllCases", FALSE)
    \/ FetchRead
    \/ FetchComplete
    \/ \E kind \in WriteKinds, retries \in 0..DefaultRetries : WriteCall(kind, retries)
    \/ WriteApply
    \/ WriteSucceed
    \/ WriteFail

SpecRetry == Init /\ [][NextRetry]_vars

\* A statement that was sent is answered or fails: the driver bounds the wait.
FairSpecRetry == SpecRetry /\ WF_vars(WriteSucceed \/ WriteFail)

(***************************************************************************)
(* page.tsx: background refresh and handleAddCase as awaited calls         *)
(***************************************************************************)
MaxCalls == 2       \* most server-action calls made by the page

\* The case lists that fetchAllCases(true) resolves with.
ServerLists ==
    {<<>>, <<BaseCase>>,
     <<[BaseCase EXCEPT !.status = S_Delivered], [BaseCase EXCEPT !.team = S_Dev]>>}

\* A rejected server-action call, and the ways fetchAllCases(true) can end.
Rejected == [ok |-> FALSE]

Resolved(data) == [ok |-> TRUE, data |-> data]

RefreshResults == {Rejected} \cup {Resolved(list) : list \in ServerLists}

\* What the page keeps outside the case list and the calls.
pageRest == <<adjustments, selectedYear, officeViewMode, debouncedSearch, columnFilters>>

\* refresh, started by the interval or by the tab becoming visible, up to the
\* await; the cleanup of the effect removes both triggers.
RefreshStart ==
    /\ ~stopped
    /\ issued < MaxCalls
    /\ issued' = issued + 1
    /\ pending' = pending \cup {[id |-> issued', op |-> "refresh"]}
    /\ delivered' = NoDelivery
    /\ UNCHANGED <<cases, filters, pageRest, stopped, error, isLoading, serverVars, moveVars>>

RefreshSettle_IgnoresStopped(call, result) ==
    /\ call \in pending /\ call.op = "refresh"
    /\ pending' = pending \ {call}
    /\ IF result = Rejected
       THEN /\ delivered' = [op |-> "refresh", id |-> call.id, outcome |-> "error"]
            /\ UNCHANGED <<cases, filters>>
       ELSE /\ delivered' = [op |-> "refresh", id |-> call.id, outcome |-> "data",
                             data |-> result.data]
            /\ cases' = result.data
            /\ filters' = OthersEffects(filters, cases')
    /\ UNCHANGED <<pageRest, stopped, error, isLoading, issued, serverVars, moveVars>>

\* refresh after the await: a rejection is logged; a result is dropped once
\* the effect was cleaned up, otherwise it replaces the list.
RefreshSettle(call, result) ==
    /\ call \in pending /\ call.op = "refresh"
    /\ pending' = pending \ {call}
    /\ IF result = Rejected
       THEN /\ delivered' = [op |-> "refresh", id |-> call.id, outcome |-> "error"]
            /\ UNCHANGED <<cases, filters>>
       ELSE /\ delivered' = [op |-> "refresh", id |-> call.id, outcome |-> "data",
                             data |-> result.data]
            /\ IF stopped THEN UNCHANGED <<cases, filters>>
               ELSE /\ cases' = result.data
                    /\ filters' = OthersEffects(filters, cases')
    /\ UNCHANGED <<pageRest, stopped, error, isLoading, issued, serverVars, moveVars>>

\* The cleanup of the refresh effect, when the page is unmounted.
Unmount ==
    /\ ~stopped
    /\ stopped' = TRUE
    /\ delivered' = NoDelivery
    /\ UNCHANGED <<cases, filters, pageRest, pending, error, isLoading, issued,
                   serverVars, moveVars>>

\* handleAddCase up to the await; the handler keeps the `cases` of its render.
AddCaseStart(newCase) ==
    /\ ~stopped
    /\ issued < MaxCalls
    /\ issued' = issued + 1
    /\ isLoading' = TRUE
    /\ error' = NULL
    /\ pending' = pending \cup {[id |-> issued', op |-> "add", cases |-> cases,
                                 newCase |-> newCase]}
    /\ delivered' = NoDelivery
    /\ UNCHANGED <<cases, filters, pageRest, stopped, serverVars, moveVars>>

\* handleAddCase after the await: addCase gave the created case, gave null, or
\* was rejected.
AddCaseSettle(call, outcome) ==
    /\ call \in pending /\ call.op = "add"
    /\ pending' = pending \ {call}
    /\ delivered' = [op |-> "add", id |-> call.id, outcome |-> outcome,
                     data |-> call.newCase]
    /\ IF outcome = "created"
       THEN /\ cases' = Append(call.cases, call.newCase)
            /\ filters' = OthersEffects(filters, cases')
            /\ UNCHANGED error
       ELSE /\ error' = <<"F", "a", "i", "l", "e", "d">>
            /\ UNCHANGED <<cases, filters>>
    /\ isLoading' = FALSE
    /\ UNCHANGED <<pageRest, stopped, issued, serverVars, moveVars>>

NextClient ==
    \/ RefreshStart
    \/ \E call \in pending, result \in RefreshResults : RefreshSettle(call, result)
    \/ Unmount
    \/ \E newCase \in {[BaseCase EXCEPT !.status = S_Open]} : AddCaseStart(newCase)
    \/ \E call \in pending, outcome \in {"created", "null", "rejected"} :
          AddCaseSettle(call, outcome)

SpecClient == Init /\ [][NextClient]_vars

(***************************************************************************)
(* page.tsx: loadAll, the initial load, over getAllCases                   *)
(***************************************************************************)
\* The rows a SELECT returns from a table that n statements were applied to,
\* every statement taken as the INSERT of one case.
RowsAt(n) == [i \in 1..n |-> BaseCase]

LoadFailedMessage == <<"F", "a", "i", "l", "e", "d", " ", "t", "o", " ", "l", "o", "a", "d">>

LoadCall == [id |-> 0, op |-> "load"]

\* loadAll with a fresh `cases_light_cache` in localStorage: the stored list is
\* shown and nothing is fetched.
LoadAllFromLocal(stored) ==
    /\ issued = 0
    /\ issued' = 1
    /\ cases' = stored
    /\ filters' = OthersEffects(filters, cases')
    /\ error' = NULL
    /\ delivered' = [op |-> "load", outcome |-> "local"]
    /\ returned' = NoReturn
    /\ UNCHANGED <<pageRest, pending, stopped, isLoading, moveVars,
                   table, casesCache, casesCacheLight, now, fetch, write, settled>>

\* loadAll without a fresh local cache, up to the await of fetchAllCases(true).
LoadAllStart ==
    /\ issued = 0
    /\ issued' = 1
    /\ isLoading' = TRUE
    /\ pending' = pending \cup {LoadCall}
    /\ delivered' = NoDelivery
    /\ FetchCallStep("getAllCases", TRUE)
    /\ UNCHANGED <<viewState, stopped, error, moveVars>>

\* loadAll after the await: try, catch and finally.
LoadAllSettle ==
    /\ LoadCall \in pending
    /\ fetch.pc # "idle" /\ fetch.kind = "getAllCases"
    /\ FetchCompleteStep \/ FetchFailStep
    /\ pending' = pending \ {LoadCall}
    /\ IF returned'.outcome = "data"
       THEN /\ cases' = RowsAt(returned'.data)
            /\ filters' = OthersEffects(filters, cases')
            /\ error' = NULL
       ELSE /\ error' = LoadFailedMessage
            /\ UNCHANGED <<cases, filters>>
    /\ isLoading' = FALSE
    /\ delivered' = [op |-> "load", outcome |-> returned'.outcome]
    /\ UNCHANGED <<pageRest, stopped, issued, moveVars>>

\* The initial load next to writes by other users and to getAllAdjustments.
NextLoad ==
    \/ \E stored \in ServerLists : LoadAllFromLocal(stored)
    \/ LoadAllStart
    \/ FetchRead
    \/ LoadAllSettle
    \/ FetchCall("getAllAdjustments", FALSE)
    \/ fetch.pc # "idle" /\ fetch.kind \in UncachedKinds /\ FetchComplete
    \/ fetch.pc # "idle" /\ fetch.kind \in UncachedKinds /\ FetchFail
    \/ \E kind \in WriteKinds : WriteCall(kind, 1)
    \/ WriteApply
    \/ WriteSucceed
    \/ WriteFail
    \/ Tick

SpecLoad == Init /\ [][NextLoad]_vars

(***************************************************************************)
(* BillingManager: MoveAmountForm and handleMoveAmount                     *)
(***************************************************************************)
MaxRows == 3        \* most rows of billing_adjustments

\* What the form can hold when it is submitted.
MoveForm(f, g, t, a) == [fromMonth |-> f, toMonth |-> g, type |-> t, amount |-> a]

MoveForms ==
    {MoveForm(1, 2, S_Full, 0), MoveForm(3, 3, S_Full, 300), MoveForm(3, 11, S_Full, 300),
     MoveForm(11, 3, S_Short, 200), MoveForm(11, 12, S_Short, 0 - 50)}

\* The cases shown while amounts are moved.
MoveCasePool ==
    {BaseCase, [BaseCase EXCEPT !.dateReceived = D_2024_11, !.type = S_Short],
     [BaseCase EXCEPT !.dateReceived = D_2023_03]}

\* The ways an awaited server action can end: with its result, rejected before
\* the statement was applied, or rejected after it was applied.
CallEnds == {"ok", "failed", "lost"}

MoveSubmit_AllowsSameMonth(form) ==
    /\ move.pc = "idle"
    /\ IF form.amount <= 0
       THEN move' = [pc |-> "idle", outcome |-> "rejected", form |-> form,
                     year |-> selectedYear, before |-> billingRows,
                     reloaded |-> FALSE]
       ELSE /\ Len(billingRows) + 2 <= MaxRows
            /\ move' = [pc |-> "first", outcome |-> "running", form |-> form,
                        year |-> selectedYear, before |-> billingRows,
                        reloaded |-> FALSE]
    /\ UNCHANGED <<viewState, billingRows, serverVars, clientVars>>

\* MoveAmountForm.handleSubmit, and handleMoveAmount up to its first await
\* (isLoading is true while move.pc is not "idle").
MoveSubmit(form) ==
    /\ move.pc = "idle"
    /\ IF form.fromMonth = form.toMonth \/ form.amount <= 0
       THEN move' = [pc |-> "idle", outcome |-> "rejected", form |-> form,
                     year |-> selectedYear, before |-> billingRows,
                     reloaded |-> FALSE]
       ELSE /\ Len(billingRows) + 2 <= MaxRows
            /\ move' = [pc |-> "first", outcome |-> "running", form |-> form,
                        year |-> selectedYear, before |-> billingRows,
                        reloaded |-> FALSE]
    /\ UNCHANGED <<viewState, billingRows, serverVars, clientVars>>

\* The first awaited addAdjustment, which takes the amount from the source
\* month: createAdjustment inserts the row and returns it, or throws before or
\* after the INSERT was applied, and then the catch block alerts.
MoveAddFirst(end) ==
    /\ move.pc = "first"
    /\ billingRows' =
          IF end = "failed" THEN billingRows
          ELSE Append(billingRows,
                      Adjustment(move.year, move.form.fromMonth, move.form.type,
                                 0 - move.form.amount))
    /\ move' = IF end = "ok" THEN [move EXCEPT !.pc = "second"]
               ELSE [move EXCEPT !.pc = "idle", !.outcome = "failed"]
    /\ UNCHANGED <<viewState, serverVars, clientVars>>

\* The second awaited addAdjustment, which puts the amount on the destination
\* month.
MoveAddSecond(end) ==
    /\ move.pc = "second"
    /\ billingRows' =
          IF end = "failed" THEN billingRows
          ELSE Append(billingRows,
                      Adjustment(move.year, move.form.toMonth, move.form.type,
                                 move.form.amount))
    /\ move' = IF end = "ok" THEN [move EXCEPT !.pc = "reload"]
               ELSE [move EXCEPT !.pc = "idle", !.outcome = "failed"]
    /\ UNCHANGED <<viewState, serverVars, clientVars>>

\* await loadAdjustments(), which catches its own failure, then the form is
\* closed.
MoveReload(loaded) ==
    /\ move.pc = "reload"
    /\ IF loaded
       THEN adjustments' \in QueryResults(billingRows)
       ELSE UNCHANGED adjustments
    /\ move' = [move EXCEPT !.pc = "idle", !.outcome = "moved", !.reloaded = loaded]
    /\ UNCHANGED <<cases, selectedYear, viewVars, billingRows, serverVars, clientVars>>

NextMove ==
    \/ \E c \in MoveCasePool : Len(cases) < MaxBilledCases /\ move = NoMove /\ AddCase(c)
    \/ \E year \in Years : move.pc = "idle" /\ SetSelectedYear(year)
    \/ \E form \in MoveForms : MoveSubmit(form)
    \/ \E end \in CallEnds : MoveAddFirst(end)
    \/ \E end \in CallEnds : MoveAddSecond(end)
    \/ \E loaded \in BOOLEAN : MoveReload(loaded)

SpecMove == Init /\ [][NextMove]_vars

(***************************************************************************)
(* Reference sums used to state the properties                             *)
(***************************************************************************)
\* The positions of the cases received in month `month` of `year`.
ReceivedIn(cs, year, month) ==
    {i \in 1..Len(cs) :
        LET date == parseDateInput(cs[i].dateReceived)
        IN  date.valid /\ date.year = year /\ date.month + 1 = month}

\* The positions of the cases received in `year`.
ReceivedInYear(cs, year) == UNION {ReceivedIn(cs, year, m) : m \in 1..12}

\* The add-on billing amount is not blank.
AddOnPresent(c) == c.addOnsBilling # UNDEF /\ Trim(c.addOnsBilling) # <<>>

\* The billing type is not empty.
TypePresent(c) == c.type # UNDEF /\ c.type # <<>>

AmountAt(cs) == [i \in 1..Len(cs) |-> parseAmount(cs[i].amount)]
AddOnAt(cs) == [i \in 1..Len(cs) |-> parseAmount(cs[i].addOnsBilling)]

\* A list of positions as a set, and the sum of f over a list of positions.
Range(list) == {list[k] : k \in 1..Len(list)}
SumAt(f, list) == SumOver([k \in 1..Len(list) |-> f[list[k]]], 1..Len(list))

\* The value of a bucket of a summary, an absent one reading as 0.
Bucket(summary, period, type) == Get(summary[period].typeAmounts, type)

\* The billing types in use: the built-in list's entries drawn here and the
\* types of the cases.
TypesInUse(cs) ==
    {S_Full, S_Short, S_Others, S_AddOns}
    \cup {cs[i].type : i \in {j \in 1..Len(cs) : TypePresent(cs[j])}}

(***************************************************************************)
(* C1                                                                      *)
(***************************************************************************)
\* How many times position i occurs in the three lists of categorizedCases.
Occurrences(lists, i) ==
    Cardinality({k \in 1..Len(lists.typeOnly) : lists.typeOnly[k] = i})
    + Cardinality({k \in 1..Len(lists.bundled) : lists.bundled[k] = i})
    + Cardinality({k \in 1..Len(lists.addonsOnly) : lists.addonsOnly[k] = i})

\* C1: every case received in the selected year is in at most one of type-only,
\* bundled and add-ons-only, and it is in exactly one of them if and only if it
\* has a billing type or an add-on billing amount.
C1_ClassifierPartition ==
    LET lists == categorizedCases
    IN  \A i \in ReceivedInYear(cases, selectedYear) :
            /\ Occurrences(lists, i) <= 1
            /\ (TypePresent(cases[i]) \/ AddOnPresent(cases[i]))
                  <=> Occurrences(lists, i) = 1

(***************************************************************************)
(* C2                                                                      *)
(***************************************************************************)
\* The rows of a time-bucketed view are the periods 1..n of the year, in order.
DenseGrid(rows, n) == Len(rows) = n /\ \A p \in 1..n : rows[p].period = p

\* C2: every time-bucketed aggregation (by billing type, by team, by region)
\* returns a bucket for each of the 12 months or 4 quarters of the selected
\* year, also for the periods without a record.
C2_DenseGrid ==
    /\ DenseGrid(monthlySummary, 12) /\ DenseGrid(quarterlySummary, 4)
    /\ DenseGrid(teamMonthlySummary, 12) /\ DenseGrid(teamQuarterlySummary, 4)
    /\ DenseGrid(monthlyAmountMatrix.rows, 12)
    /\ DenseGrid(quarterlyAmountMatrix.rows, 4)

(***************************************************************************)
(* C3                                                                      *)
(***************************************************************************)
CountIn(adjs, x) == Cardinality({i \in 1..Len(adjs) : adjs[i] = x})

\* The step adds the one adjustment adj to the list and changes nothing else.
AdjustmentAdded(adj) ==
    /\ cases' = cases /\ selectedYear' = selectedYear
    /\ Len(adjustments') = Len(adjustments) + 1
    /\ \A x \in AdjustmentPool :
          CountIn(adjustments', x) = CountIn(adjustments, x) + (IF x = adj THEN 1 ELSE 0)

\* What adding adj does to the summary `before`, giving `after`, for the
\* selected year `year` and the billing types `types`.
AdjustmentEffect(before, after, adj, year, types) ==
    IF adj.year = year /\ adj.month \in 1..12
    THEN /\ Len(after) = 12
         /\ \A m \in 1..12 :
               /\ \A t \in types :
                     Bucket(after, m, t) =
                         Bucket(before, m, t)
                         + (IF m = adj.month /\ t = adj.type THEN adj.amount ELSE 0)
               /\ after[m].total =
                     before[m].total + (IF m = adj.month THEN adj.amount ELSE 0)
         /\ TypeTotalsOf(after).grandTotal = TypeTotalsOf(before).grandTotal + adj.amount
    ELSE after = before /\ TypeTotalsOf(after) = TypeTotalsOf(before)

\* C3: adding one adjustment (y, m, t, a) changes the (m, t) bucket, month m's
\* total and the grand total by a and nothing else when y is the selected year
\* and m is in 1..12, and leaves the whole summary unchanged otherwise.
C3_AdjustmentEffect ==
    [][\A adj \in AdjustmentPool : AdjustmentAdded(adj) =>
          \A before \in {MonthlySummaryOf(cases, selectedYear, adjustments)} :
              \A after \in {MonthlySummaryOf(cases', selectedYear', adjustments')} :
                  AdjustmentEffect(before, after, adj, selectedYear, TypesInUse(cases))]_vars

\* An adjustment of the selected year is listed on a bucket that holds case
\* amounts too, and one of another year is listed.
C3_Witness ==
    /\ \E i \in 1..Len(adjustments) :
          /\ adjustments[i].year = selectedYear
          /\ Bucket(MonthlySummaryOf(cases, selectedYear, <<>>),
                    adjustments[i].month, adjustments[i].type) # 0
    /\ \E i \in 1..Len(adjustments) : adjustments[i].year # selectedYear

(***************************************************************************)
(* C4                                                                      *)
(***************************************************************************)
\* C4: the monthly summary (type buckets, month totals, grand total) is the same
\* for every ordering of the adjustment list.
C4_OverlayOrderIndependent ==
    LET listed == monthlySummary
        listedTotals == TypeTotalsOf(listed)
    IN  \A p \in IndexPermutations(Len(adjustments)) :
            LET reordered == [i \in 1..Len(adjustments) |-> adjustments[p[i]]]
                summary == MonthlySummaryOf(cases, selectedYear, reordered)
            IN  /\ summary = listed
                /\ TypeTotalsOf(summary) = listedTotals

\* Two different adjustments of the selected year are listed on one bucket.
C4_Witness ==
    \E i, j \in 1..Len(adjustments) :
        /\ adjustments[i] # adjustments[j]
        /\ adjustments[i].year = selectedYear /\ adjustments[j].year = selectedYear
        /\ adjustments[i].month = adjustments[j].month
        /\ adjustments[i].type = adjustments[j].type

(***************************************************************************)
(* C5                                                                      *)
(***************************************************************************)
\* For each position, the month (1..12) of the case when it is received in
\* `year`, and 0 otherwise.
MonthAt(cs, year) ==
    [i \in 1..Len(cs) |->
        LET date == parseDateInput(cs[i].dateReceived)
        IN  IF date.valid /\ date.year = year THEN date.month + 1 ELSE 0]

\* The sum of the amounts `amt` of the cases of month `month` with type t.
TypedSum(cs, mon, amt, month, t) ==
    SumOver(amt, {i \in 1..Len(cs) : mon[i] = month /\ cs[i].type = t})

\* The sum of the add-on amounts `add` of the cases of month `month`.
AddOnSum(cs, mon, add, month) ==
    SumOver(add, {i \in 1..Len(cs) : mon[i] = month /\ AddOnPresent(cs[i])})

\* C5 as claimed: with no adjustments every bucket (m, t) of the monthly summary
\* is the sum of the parsed amounts of the cases of month m with type t (0 when
\* there is none), and a single typed case of amount a gives grand total a.
C5_BucketsAreTypedSums ==
    adjustments = <<>> =>
        \A summary \in {monthlySummary} :
            \A mon \in {MonthAt(cases, selectedYear)} : \A amt \in {AmountAt(cases)} :
                /\ \A m \in 1..12 : \A t \in TypesInUse(cases) :
                      Bucket(summary, m, t) = TypedSum(cases, mon, amt, m, t)
                /\ (Len(cases) = 1 /\ TypePresent(cases[1]) /\ mon[1] # 0)
                      => TypeTotalsOf(summary).grandTotal = amt[1]

\* C5 as amended: with no adjustments every bucket (m, t) of a type t other than
\* "Add-ons" is the sum of the parsed amounts of the cases of month m with type
\* t; the "Add-ons" bucket holds in addition the parsed add-on amounts of the
\* cases of month m that have one; the grand total is the sum of all buckets,
\* so a single typed case of amount a without an add-on amount gives a.
C5_BucketsAreTypedSumsPlusAddOns ==
    adjustments = <<>> =>
        \A summary \in {monthlySummary} :
            \A mon \in {MonthAt(cases, selectedYear)} : \A amt \in {AmountAt(cases)} :
                \A add \in {AddOnAt(cases)} : \A types \in {TypesInUse(cases)} :
                    \A expected \in
                          {[m \in 1..12 |->
                               [t \in types |->
                                   TypedSum(cases, mon, amt, m, t)
                                   + (IF t = S_AddOns
                                      THEN AddOnSum(cases, mon, add, m) ELSE 0)]]} :
                        /\ Len(summary) = 12
                        /\ \A m \in 1..12 :
                              /\ DOMAIN summary[m].typeAmounts \subseteq types
                              /\ \A t \in types :
                                    Bucket(summary, m, t) = expected[m][t]
                        /\ TypeTotalsOf(summary).grandTotal =
                              SumOver([m \in 1..12 |-> SumOver(expected[m], types)],
                                      1..12)
                        /\ (Len(cases) = 1 /\ TypePresent(cases[1])
                                /\ ~AddOnPresent(cases[1]) /\ mon[1] # 0)
                              => TypeTotalsOf(summary).grandTotal = amt[1]

\* Two cases of one month and type, one of them with an add-on amount, in the
\* selected year, and no adjustment.
C5_Witness ==
    /\ adjustments = <<>>
    /\ \E i, j \in ReceivedInYear(cases, selectedYear) :
          /\ i # j
          /\ TypePresent(cases[i]) /\ cases[i].type = cases[j].type
          /\ parseDateInput(cases[i].dateReceived) = parseDateInput(cases[j].dateReceived)
          /\ parseAmount(cases[i].amount) # 0 /\ parseAmount(cases[j].amount) # 0
          /\ AddOnPresent(cases[i])

(***************************************************************************)
(* C6                                                                      *)
(***************************************************************************)
\* C6: in the billing-type and team aggregations every case received in the
\* selected year contributes its parsed amount to the total of its month,
\* whatever its billing type or team: the month total of the team view is the
\* sum of the parsed amounts of the month's cases, and that of the billing view
\* (before adjustments) is this sum plus the month's add-on amounts.
C6_OnlyUndatedSkipped ==
    \A billing \in {MonthlySummaryOf(cases, selectedYear, <<>>)} :
        \A team \in {teamMonthlySummary} :
            \A mon \in {MonthAt(cases, selectedYear)} : \A amt \in {AmountAt(cases)} :
                \A m \in 1..12 :
                    /\ billing[m].total =
                          SumOver(amt, {i \in 1..Len(cases) : mon[i] = m})
                          + AddOnSum(cases, mon, AddOnAt(cases), m)
                    /\ team[m].total =
                          SumOver(amt, {i \in 1..Len(cases) : mon[i] = m})

(***************************************************************************)
(* C7                                                                      *)
(***************************************************************************)
\* C7: after aggregation and the adjustment overlay every month's total is the
\* sum of the month's per-type amounts, and the grand total is the sum of the
\* twelve month totals and the sum of the per-type column totals.
C7_TotalsConsistent ==
    \A summary \in {monthlySummary} :
        \A totals \in {TypeTotalsOf(summary)} :
            /\ Len(summary) = 12
            /\ \A m \in 1..12 : summary[m].total = SumValues(summary[m].typeAmounts)
            /\ totals.grandTotal = SumOver([m \in 1..12 |-> summary[m].total], 1..12)
            /\ totals.grandTotal = SumValues(totals.totals)

\* A month of the selected year holds a typed amount, an add-on amount and an
\* adjustment.
C7_Witness ==
    \E m \in 1..12 :
        /\ {S_Full, S_AddOns} \subseteq DOMAIN monthlySummary[m].typeAmounts
        /\ \E i \in 1..Len(adjustments) :
              adjustments[i].year = selectedYear /\ adjustments[i].month = m
        /\ monthlySummary[m].total # 0

(***************************************************************************)
(* C8                                                                      *)
(***************************************************************************)
\* C8: type-only revenue is the sum of the parsed amounts of the type-only
\* cases, bundled revenue the sum of parsed amount plus parsed add-on amount of
\* the bundled cases, add-ons-only revenue the sum of the parsed add-on amounts
\* of the add-ons-only cases, and total revenue the sum of the three.
C8_ClassifierRevenues ==
    \A lists \in {categorizedCases} :
        \A analysis \in {addonAnalysis} :
            /\ analysis.typeOnlyRevenue = SumAt(AmountAt(cases), lists.typeOnly)
            /\ analysis.bundledRevenue =
                  SumAt(AmountAt(cases), lists.bundled) + SumAt(AddOnAt(cases), lists.bundled)
            /\ analysis.addOnOnlyRevenue = SumAt(AddOnAt(cases), lists.addonsOnly)
            /\ analysis.totalRevenue =
                  analysis.typeOnlyRevenue + analysis.bundledRevenue
                  + analysis.addOnOnlyRevenue

(***************************************************************************)
(* C9                                                                      *)
(***************************************************************************)
\* The number n / d, and 0 when d is 0.
RatioOrZero(n, d) ==
    [kind |-> "finite", value |-> IF d = 0 THEN RatZero ELSE Rat(n, d)]

\* C9: average add-on value is the year's add-on revenue, each case's add-on
\* amount counted once, over (add-ons-only count + bundled count); attach rate is
\* bundled count over (type-only count + bundled count) times 100; each is 0
\* when its denominator is 0, and both are finite.
C9_AddOnRatios ==
    \A analysis \in {addonAnalysis} :
        /\ IsFinite(analysis.avgAddOnValue) /\ IsFinite(analysis.addOnAttachmentRate)
        /\ analysis.avgAddOnValue =
              RatioOrZero(SumOver(AddOnAt(cases),
                                  {i \in ReceivedInYear(cases, selectedYear) :
                                      AddOnPresent(cases[i])}),
                          analysis.addOnOnlyCount + analysis.bundledCount)
        /\ analysis.addOnAttachmentRate =
              RatioOrZero(analysis.bundledCount * 100,
                          analysis.typeOnlyCount + analysis.bundledCount)

(***************************************************************************)
(* C10                                                                     *)
(***************************************************************************)
\* The text with every " and " (the word between blanks, in any case) replaced
\* by a comma.
RECURSIVE AndToComma(_)
AndToComma(s) ==
    IF s = <<>> THEN <<>>
    ELSE IF Len(s) >= 5 /\ ToLowerCase(SubSeq(s, 1, 5)) = <<" ", "a", "n", "d", " ">>
         THEN <<",">> \o AndToComma(SubSeq(s, 6, Len(s)))
         ELSE <<Head(s)>> \o AndToComma(Tail(s))

\* The components a case lists: the pieces of addOnIpDelivered between commas,
\* plus signs and the word "and".
ListedComponents(c) ==
    IF c.addOnIpDelivered = UNDEF THEN <<>>
    ELSE TrimAndDropEmpty(SplitChars(AndToComma(c.addOnIpDelivered), {",", "+"}))

\* What the cases from position i on credit to component x: each case with an
\* add-on amount A that lists x among k components credits A / k, once.
RECURSIVE ListedCredit(_, _, _, _)
ListedCredit(cs, i, year, x) ==
    IF i > Len(cs) THEN [count |-> 0, revenue |-> RatZero]
    ELSE LET rest == ListedCredit(cs, i + 1, year, x)
             listed == ListedComponents(cs[i])
         IN  IF DatedIn(cs[i], year) /\ AddOnPresent(cs[i]) /\ x \in Range(listed)
             THEN [count |-> rest.count + 1,
                   revenue |-> RatAdd(rest.revenue,
                                      Rat(parseAmount(cs[i].addOnsBilling), Len(listed)))]
             ELSE rest

\* C10: a case with add-on amount A that lists k >= 1 components, separated by
\* comma, plus sign or the word "and", credits A / k to each listed component
\* and raises its count by 1.
C10_EvenSplitPerComponent ==
    \A i \in ReceivedInYear(cases, selectedYear) :
        AddOnPresent(cases[i]) =>
            \A x \in Range(ListedComponents(cases[i])) :
                /\ x \in DOMAIN addonAnalysis.addOnMap
                /\ addonAnalysis.addOnMap[x] = ListedCredit(cases, 1, selectedYear, x)

(***************************************************************************)
(* C11                                                                     *)
(***************************************************************************)
\* The number of cases the office matrix counts in its cells.
CellSum(m, n) ==
    SumOver([r \in 1..Len(m.regions) |->
                SumOver([o \in 1..Len(m.regions[r].rows) |->
                            SumOver(m.regions[r].rows[o].quarters, 1..n)],
                        1..Len(m.regions[r].rows))],
            1..Len(m.regions))

\* C11: every case handed to the office matrix is counted in exactly one
\* (region, office, period) cell, a blank region or office under its
\* placeholder, so the cells and the grand total add up to the number of cases.
C11_EveryRecordCounted ==
    \A m \in {matrix} :
        /\ m.grandTotal = Len(filteredCases)
        /\ CellSum(m, PeriodCount(officeViewMode)) = Len(filteredCases)

(***************************************************************************)
(* C12                                                                     *)
(***************************************************************************)
\* C12: in the office matrix of every view mode each region's per-period
\* subtotal is the sum of its offices' counts, each office's total is the sum
\* of its period counts, the grand-total row is the per-period sum over the
\* regions, and grandTotal = caseCount = the sum of the region totals.
C12_OfficeTotalsConsistent ==
    \A m \in {matrix} : \A n \in {PeriodCount(officeViewMode)} :
        /\ Len(m.quarterTotals) = n
        /\ \A r \in 1..Len(m.regions) :
              /\ \A idx \in 1..n :
                    m.regions[r].quarterTotals[idx] =
                        SumOver([o \in 1..Len(m.regions[r].rows) |->
                                    m.regions[r].rows[o].quarters[idx]],
                                1..Len(m.regions[r].rows))
              /\ \A o \in 1..Len(m.regions[r].rows) :
                    m.regions[r].rows[o].total =
                        SumOver(m.regions[r].rows[o].quarters, 1..n)
        /\ \A idx \in 1..n :
              m.quarterTotals[idx] =
                  SumOver([r \in 1..Len(m.regions) |-> m.regions[r].quarterTotals[idx]],
                          1..Len(m.regions))
        /\ m.grandTotal = m.caseCount
        /\ m.grandTotal =
              SumOver([r \in 1..Len(m.regions) |-> m.regions[r].total],
                      1..Len(m.regions))

\* A region with two offices counted in different periods.
C12_Witness ==
    \E r \in 1..Len(matrix.regions) :
        /\ Len(matrix.regions[r].rows) = 2
        /\ matrix.regions[r].rows[1].quarters # matrix.regions[r].rows[2].quarters
        /\ matrix.grandTotal = 2

(***************************************************************************)
(* C13                                                                     *)
(***************************************************************************)
\* Region a is to come before region b: a known region before any other, the
\* known ones in the order of REGION_ORDER, the others in string order.
RegionBefore(a, b) ==
    IF Includes(REGION_ORDER, a)
    THEN ~Includes(REGION_ORDER, b) \/ IndexOf(REGION_ORDER, a) < IndexOf(REGION_ORDER, b)
    ELSE ~Includes(REGION_ORDER, b) /\ StringLess(a, b)

RegionsInOrder(names) ==
    \A i, j \in 1..Len(names) : i < j => RegionBefore(names[i], names[j])

\* C13: in the office matrix and in the amount matrix the known regions come
\* first in the order Americas, APAC, EMEA, the other regions follow in string
\* order, and the offices of each region are in string order.
C13_RegionAndOfficeOrder ==
    \A m \in {matrix} :
        /\ RegionsInOrder([r \in 1..Len(m.regions) |-> m.regions[r].region])
        /\ \A r \in 1..Len(m.regions) :
              \A i, j \in 1..Len(m.regions[r].rows) :
                  i < j => StringLess(m.regions[r].rows[i].office,
                                      m.regions[r].rows[j].office)
        /\ RegionsInOrder(AmountRegionsOf(PropOf(cases, filteredCases), selectedYear))

(***************************************************************************)
(* C14: the filter with nothing selected                                   *)
(***************************************************************************)
NothingSelected ==
    /\ filters = emptyFilters
    /\ Trim(debouncedSearch) = <<>>
    /\ \A key \in DOMAIN columnFilters : Trim(columnFilters[key]) = <<>>

\* kept lists its positions by received date descending, equal dates in input order.
ByReceivedDateDescending(cs, kept) ==
    \A a, b \in 1..Len(kept) :
        a < b => \/ ReceivedTime(cs[kept[a]]) > ReceivedTime(cs[kept[b]])
                 \/ /\ ReceivedTime(cs[kept[a]]) = ReceivedTime(cs[kept[b]])
                    /\ kept[a] < kept[b]

\* C14: with no filter selected, an empty or blank search and no column filter
\* text, filteredCases holds every case exactly once, ordered by received date
\* descending.
C14_IdentityFilter ==
    NothingSelected =>
        \A kept \in {filteredCases} :
            /\ Len(kept) = Len(cases)
            /\ {kept[k] : k \in 1..Len(kept)} = 1..Len(cases)
            /\ ByReceivedDateDescending(cases, kept)

\* Two cases shown in the other order, under a blank search and a blank column filter.
C14_Witness ==
    /\ NothingSelected
    /\ debouncedSearch = S_Blank
    /\ "status" \in DOMAIN columnFilters
    /\ Len(cases) = 2
    /\ filteredCases = <<2, 1>>

(***************************************************************************)
(* C15: a date bound that does not parse                                   *)
(***************************************************************************)
Malformed(text) == Truthy(text) /\ ~parseDateInput(text).valid

\* C15: when dateReceivedFrom or dateReceivedTo is set to a text that does not
\* parse as a date, filteredCases is empty.
C15_MalformedBoundMatchesNone ==
    (Malformed(filters.dateReceivedFrom) \/ Malformed(filters.dateReceivedTo))
        => filteredCases = <<>>

(***************************************************************************)
(* C16: a date range with valid bounds                                     *)
(***************************************************************************)
ValidBound(text) == Truthy(text) /\ parseDateInput(text).valid

\* Only the date range is set, and every bound that is set parses.
OnlyValidDateRange ==
    /\ filters = [emptyFilters EXCEPT !.dateReceivedFrom = filters.dateReceivedFrom,
                                      !.dateReceivedTo = filters.dateReceivedTo]
    /\ Trim(debouncedSearch) = <<>>
    /\ \A key \in DOMAIN columnFilters : Trim(columnFilters[key]) = <<>>
    /\ ValidBound(filters.dateReceivedFrom) \/ ValidBound(filters.dateReceivedTo)
    /\ ~Malformed(filters.dateReceivedFrom) /\ ~Malformed(filters.dateReceivedTo)

\* from <= received <= to on calendar days, an absent bound allowing every day.
InRange(c, from, to) ==
    \A received \in {parseDateInput(c.dateReceived)} :
        /\ received.valid
        /\ Truthy(from) => DayNumber(parseDateInput(from)) <= DayNumber(received)
        /\ Truthy(to) => DayNumber(received) <= DayNumber(parseDateInput(to))

\* C16: under a date range whose bounds parse, a case is in filteredCases
\* exactly when its received date parses and lies between the bounds, both
\* inclusive; a case whose received date is missing or does not parse is left out.
C16_DateRangeInclusive ==
    OnlyValidDateRange =>
        \A kept \in {filteredCases} :
            \A i \in 1..Len(cases) :
                Includes(kept, i)
                    <=> InRange(cases[i], filters.dateReceivedFrom, filters.dateReceivedTo)

\* Both bounds set, one case received on the upper bound and kept, one case
\* without a parseable received date and left out.
C16_Witness ==
    /\ OnlyValidDateRange
    /\ filters.dateReceivedFrom = D_2023_03
    /\ filters.dateReceivedTo = D_2024_03
    /\ Len(cases) = 2
    /\ cases[1].dateReceived = D_2024_03
    /\ ~parseDateInput(cases[2].dateReceived).valid
    /\ filteredCases = <<1>>

(***************************************************************************)
(* C18: the Others selector                                                *)
(***************************************************************************)
\* Only statuses are selected.
OnlyStatusSelected(f) == f = [emptyFilters EXCEPT !.status = f.status]

\* The status of c is selected by name, or lies outside canonicalStatuses
\* (a case without a status included) while Others is selected.
SelectedOrOther(c, selected) ==
    \A normalized \in {normalizeStatus(c.status)} :
        \/ normalized # NULL /\ Includes(selected, normalized)
        \/ /\ Includes(selected, S_Others)
           /\ \/ normalized = NULL
              \/ ToLowerCase(normalized) \notin LowerSet(canonicalStatuses)

\* C18: with Others among the selected statuses, the cases shown after the
\* case list changes are exactly those whose normalised status is selected by
\* name or lies outside the canonical vocabulary, a case with no status
\* included; a case with a canonical status is not shown through Others alone.
C18_OthersMatchesNonCanonical ==
    [][(/\ Includes(filters.status, S_Others)
        /\ OnlyStatusSelected(filters)
        /\ Trim(debouncedSearch) = <<>>
        /\ \A key \in DOMAIN columnFilters : Trim(columnFilters[key]) = <<>>
        /\ cases' # cases)
       => \A kept \in {FilteredCasesOf(cases', filters', debouncedSearch',
                                       columnFilters', Today)} :
             \A i \in 1..Len(cases') :
                 Includes(kept, i) <=> SelectedOrOther(cases'[i], filters.status)]_vars

(***************************************************************************)
(* C17: the due buckets                                                    *)
(***************************************************************************)
\* The promised date of c parses and lies from..to days after today.
DueWithin(c, from, to) ==
    \A promised \in {parseDateInput(c.promisedDateForDelivery)} :
        /\ promised.valid
        /\ Today + from <= DayNumber(promised)
        /\ DayNumber(promised) <= Today + to

\* The promised date of c parses and lies before today.
DueBeforeToday(c) ==
    \A promised \in {parseDateInput(c.promisedDateForDelivery)} :
        promised.valid /\ DayNumber(promised) < Today

\* The window of each bucket.
InBucket(c, bucket) ==
    CASE bucket = "overdue" -> isActiveStatus(c.status) /\ DueBeforeToday(c)
      [] bucket = "due-soon" -> isActiveStatus(c.status) /\ DueWithin(c, 0, 2)
      [] bucket = "this-week" -> isActiveStatus(c.status) /\ DueWithin(c, 0, 7)
      [] bucket = "next-week" -> isActiveStatus(c.status) /\ DueWithin(c, 8, 14)
      [] bucket = "no-due-date" -> ~Truthy(c.promisedDateForDelivery)

OnlyBucket(bucket) == [emptyFilters EXCEPT !.dueBucket = bucket]

IsTerminal(status) ==
    \E k \in 1..Len(closedStatuses) : normalizeStatus(status) = closedStatuses[k]

AmountTexts ==
    {cases[i].amount : i \in 1..Len(cases)} \cup {cases[i].addOnsBilling : i \in 1..Len(cases)}

\* C20: parseAmount gives a number for every amount text: 1200 for "$1,200",
\* 0 for an empty, missing, blank or non-numeric text, the same number with
\* dollar signs, commas and surrounding spaces added, and the same number when
\* applied again.
C20_ParseAmountTotal ==
    \A text \in AmountTexts :
        \A parsed \in {parseAmount(text)} :
            /\ parsed \in Int
            /\ text = S_1200 => parsed = 1200
            /\ text = S_100 => parsed = 100
            /\ text \in {<<>>, UNDEF, S_Blank, S_abc} => parsed = 0
            /\ Truthy(text) => parseAmount(<<" ", "$">> \o text \o <<",", " ">>) = parsed
            /\ parseAmount(text) = parsed

\* "$1,200" and "abc" are both among the amounts parsed.
C20_Witness ==
    /\ Len(cases) = 2
    /\ cases[1].amount = S_1200
    /\ cases[2].amount = S_abc
    /\ AmountAt(cases) = <<1200, 0>>

(***************************************************************************)
(* C21: the case cache after a write                                       *)
(***************************************************************************)
\* C21: the rows that a getAllCases or getAllCasesLight call without
\* forceRefresh returns were read from the table after every write call that
\* had ended successfully when the call was made.
C21_NoStaleReadAfterWrite ==
    (/\ returned.call \in FetchKinds
     /\ returned.outcome = "data"
     /\ ~returned.forced)
        => returned.data >= returned.settled

(***************************************************************************)
(* C26: monthly and quarterly totals                                       *)
(***************************************************************************)
TotalOf(summary) == SumOver([i \in 1..Len(summary) |-> summary[i].total], 1..Len(summary))

IsOpenOrInProgress(status) ==
    Truthy(status) /\ ToLowerCase(Trim(status)) \in {ToLowerCase(S_Open), ToLowerCase(S_InProgress)}

\* The status normalises to Closed, Cancelled or Delivered.
IsClosedCancelledDelivered(status) ==
    normalizeStatus(status) \in {<<"C", "l", "o", "s", "e", "d">>,
                                 <<"C", "a", "n", "c", "e", "l", "l", "e", "d">>,
                                 S_Delivered}

\* C25: every shown case with status Open or In Progress is counted in Total
\* Open, and in Overdue when its promised date is before today; no shown case
\* with a closed, cancelled or delivered status is counted in Total Open.
C25_OpenKpi ==
    \A open \in {openCases} : \A overdue \in {overdueCases} : \A kept \in {filteredCases} :
        \A k \in 1..Len(kept) :
            \A c \in {cases[kept[k]]} :
                /\ IsOpenOrInProgress(c.status) =>
                      /\ Includes(open, kept[k])
                      /\ DueBeforeToday(c) => Includes(overdue, kept[k])
                /\ IsClosedCancelledDelivered(c.status) => ~Includes(open, kept[k])

(***************************************************************************)
(* C27: bounded retry                                                      *)
(***************************************************************************)
WriteEnded == returned.call \in WriteKinds

\* Attempts stay within `retries`; a call that ends without success has made
\* every attempt and rethrows, or returns false in deleteCase; a call that
\* ends with success leaves no attempt behind.
RetryOutcomes ==
    /\ write.pc # "idle" => write.attempt \in 1..write.retries
    /\ WriteEnded =>
          /\ returned.attempts <= returned.retries
          /\ returned.outcome = "ok" => write.pc = "idle" /\ returned.attempts >= 1
          /\ (returned.outcome # "ok" /\ returned.retries >= 1) =>
                /\ returned.attempts = returned.retries
                /\ returned.outcome = IF returned.call = "deleteCase" THEN "false"
                                      ELSE "error"

\* A step that changes a cache while a write call is running is the successful
\* end of that call, or the end of a read.
CacheClearedBySuccessOnly ==
    (/\ write.pc # "idle"
     /\ <<casesCache', casesCacheLight'>> # <<casesCache, casesCacheLight>>)
        => \/ returned'.call \in WriteKinds /\ returned'.outcome = "ok"
           \/ returned'.call \in FetchKinds

\* C27: createCase, updateCase and deleteCase make at most `retries` attempts,
\* stop at the first success and always end; after the last failed attempt
\* createCase and updateCase rethrow and deleteCase returns false; the caches
\* are cleared by a successful attempt only.
C27_BoundedRetry ==
    /\ []RetryOutcomes
    /\ [][CacheClearedBySuccessOnly]_vars
    /\ (write.pc # "idle") ~> (write.pc = "idle")

\* createCase has rethrown after three failed attempts and the cache filled
\* before the call is still in place.
C27_Witness ==
    /\ returned.call = "createCase"
    /\ returned.outcome = "error"
    /\ returned.attempts = DefaultRetries
    /\ casesCache.present

(***************************************************************************)
(* C28: rows inserted by one createCase call                               *)
(***************************************************************************)
\* C28: one createCase call has its INSERT applied at most once.
C28_AtMostOneRow ==
    /\ (write.pc # "idle" /\ write.kind = "createCase") => write.applied <= 1
    /\ (WriteEnded /\ returned.call = "createCase") => returned.applied <= 1

(***************************************************************************)
(* C22: background refresh                                                 *)
(***************************************************************************)
RefreshEnded == delivered.op = "refresh"

\* A refresh that ends with a result while the effect is live replaces the list.
RefreshReplaces ==
    (RefreshEnded /\ delivered.outcome = "data" /\ ~stopped) => cases = delivered.data

\* A refresh that fails, or ends after the cleanup, changes neither the list
\* nor the error message.
RefreshLeavesAlone ==
    (/\ delivered'.op = "refresh"
     /\ delivered'.outcome = "error" \/ stopped')
        => cases' = cases /\ error' = error

\* C22: the case list is the result of the refresh that ended last with
\* success, whenever it was started; a failed refresh leaves the list and the
\* error message as they are; no result is applied after the page is unmounted.
C22_RefreshLastWins ==
    /\ []RefreshReplaces
    /\ [][RefreshLeavesAlone]_vars

\* The refresh started first ends after the call started second, and its result
\* is the list.
C22_Witness ==
    /\ RefreshEnded
    /\ delivered.outcome = "data"
    /\ delivered.id = 1
    /\ issued = 2
    /\ pending = {}
    /\ ~stopped
    /\ cases = delivered.data
    /\ Len(cases) = 2

(***************************************************************************)
(* C29: changes applied to the list while an add is awaited                *)
(***************************************************************************)
\* C29: when handleAddCase ends with a created case, the list is the list as it
\* stood just before, with every change applied meanwhile, plus that case.
AddKeepsChanges ==
    (delivered'.op = "add" /\ delivered'.outcome = "created")
        => cases' = Append(cases, delivered'.data)

C29_NoLostUpdate == [][AddKeepsChanges]_vars

(***************************************************************************)
(* C24: a failed SELECT                                                    *)
(***************************************************************************)
FetchEnds == fetch.pc # "idle" /\ fetch'.pc = "idle"

\* The call in flight ends with the rows the SELECT read, all of them, or with
\* the error; it is over either way, and an error leaves both caches alone.
FetchFailurePropagates ==
    FetchEnds =>
        /\ returned'.call = fetch.kind
        /\ \/ /\ returned'.outcome = "data"
              /\ fetch.pc = "read"
              /\ returned'.data = fetch.data
           \/ /\ returned'.outcome = "error"
              /\ casesCache' = casesCache
              /\ casesCacheLight' = casesCacheLight
              /\ table' = table

\* loadAll that ends with the error keeps the list, sets the message and
\* puts the loading flag back.
LoadFailureShown ==
    (LoadCall \in pending /\ LoadCall \notin pending' /\ returned'.outcome = "error")
        => /\ isLoading
           /\ cases' = cases
           /\ Truthy(error')
           /\ isLoading' = FALSE

\* C24: a failed query of getAllCases or getAllAdjustments ends the call with
\* the error, no list is returned in its place, no second query is sent and the
\* caches are as before; loadAll then keeps the case list, sets an error
\* message and sets the loading flag back to false.
C24_FetchFailurePropagated ==
    /\ [][FetchFailurePropagates]_vars
    /\ [][LoadFailureShown]_vars

\* The initial load failed on a table that was written to; the list is still
\* empty, the message is set and the loading flag is back to false.
C24_Witness ==
    /\ delivered.op = "load"
    /\ delivered.outcome = "error"
    /\ returned.call = "getAllCases"
    /\ returned.outcome = "error"
    /\ Truthy(error)
    /\ ~isLoading
    /\ fetch.pc = "idle"
    /\ table > 0
    /\ cases = <<>>

(***************************************************************************)
(* C23: moving an amount between months                                    *)
(***************************************************************************)
MoveEnded == move.pc = "idle" /\ move.outcome = "moved"

\* The two rows a move of `form` in `year` is to create, in order.
MoveRows(form, year) ==
    <<Adjustment(year, form.fromMonth, form.type, 0 - form.amount),
      Adjustment(year, form.toMonth, form.type, form.amount)>>

\* The summary `after` is the summary `before` with `form.amount` taken from
\* the source month's bucket of the type and put on the destination month's.
MoveEffect(before, after, form, types) ==
    /\ \A m \in 1..12 : \A t \in types :
          Bucket(after, m, t) =
              Bucket(before, m, t)
              + (IF t # form.type THEN 0
                 ELSE IF m = form.fromMonth THEN 0 - form.amount
                 ELSE IF m = form.toMonth THEN form.amount
                 ELSE 0)
    /\ TypeTotalsOf(after).grandTotal = TypeTotalsOf(before).grandTotal
    /\ TotalOf(after) = TotalOf(before)

\* A move that ended well was of two different months and a positive amount
\* and added exactly its two rows; once they are loaded, the summary of its
\* year differs from the one over the rows held before by the move alone.
MoveCreatesTwo ==
    MoveEnded =>
        /\ move.form.fromMonth # move.form.toMonth
        /\ move.form.amount > 0
        /\ billingRows = move.before \o MoveRows(move.form, move.year)
        /\ move.reloaded =>
              \A before \in {MonthlySummaryOf(cases, move.year, move.before)} :
                  \A after \in {MonthlySummaryOf(cases, move.year, adjustments)} :
                      MoveEffect(before, after, move.form, TypesInUse(cases))

\* A form with equal months or an amount that is not positive goes no further
\* than the alert.
MoveRejected ==
    /\ move.outcome = "rejected" =>
          /\ move.form.fromMonth = move.form.toMonth \/ move.form.amount <= 0
          /\ billingRows = move.before
    /\ move.outcome \in {"running", "moved", "failed"} =>
          /\ move.form.fromMonth # move.form.toMonth
          /\ move.form.amount > 0

\* C23: a move of a > 0 of type t from month f to month g # f that succeeds
\* creates exactly the adjustments (f, t, -a) and (g, t, +a) of the selected
\* year, in that order; the monthly summary then has a less in (f, t), a more
\* in (g, t) and the same grand total; a form with f = g or a <= 0 is rejected
\* and creates nothing.
C23_MoveBetweenMonths == MoveCreatesTwo /\ MoveRejected

\* A move has ended well on top of a row that an earlier, failed move left, and
\* the reloaded list holds all three.
C23_Witness ==
    /\ MoveEnded
    /\ move.reloaded
    /\ move.before # <<>>
    /\ Len(adjustments) = Len(move.before) + 2
    /\ Bucket(MonthlySummaryOf(cases, move.year, move.before),
              move.form.fromMonth, move.form.type) # 0

(***************************************************************************)
(* C30: a move that fails                                                  *)
(***************************************************************************)
\* C30: when handleMoveAmount fails, at its first or at its second
\* addAdjustment, no row of that move is left in billing_adjustments.
C30_MoveAllOrNothing ==
    (move.pc = "idle" /\ move.outcome = "failed") => billingRows = move.before

=============================================================================
